---- MODULE Spec2Model ----
(***************************************************************************)
(* Conversational analytics pipeline of synapse-backend:                   *)
(*   RuleIntentClassifier -> SQLQueryBuilder / ForecastService ->          *)
(*   ResponseGenerator, driven by ChatWebSocketManager._build_response.    *)
(*                                                                         *)
(* A text is a sequence of one-character strings.  None is a value no text *)
(* can equal.  Optional integers use -1 for None (the code only produces   *)
(* integers parsed from \d+, which are never negative).                    *)
(***************************************************************************)
EXTENDS Integers, Sequences, FiniteSets, TLC

VARIABLES
    text,            \* the user's message / the text under classification
    entities,        \* result of extract_entities(text)
    pc,              \* position inside _build_response
    use_embeddings,  \* RuleIntentClassifier.use_embeddings
    embedding_model, \* RuleIntentClassifier.embedding_model is not None
    nlp,             \* RuleIntentClassifier._nlp is not None
    intent,          \* intent returned by RuleIntentClassifier.execute
    params,          \* params returned by RuleIntentClassifier.execute
    best_score,      \* best similarity seen by _semantic_detect (x100)
    globals,         \* module globals _NL_PARSER, _EMBEDDING_MODEL, _EXAMPLES_EMB (set or not)
    schema,          \* tables reflected by the inspector
    out,             \* result of SQLQueryBuilder.execute
    executed,        \* SQL statements handed to conn.execute, in order
    horizon,         \* periods passed to the forecasting model, 0 if none
    reply,           \* string built for the user
    outcome,         \* how _build_response / execute ended
    sales,           \* what the sales table holds: the two sums of a comparison, or dated rows
    chat_history,    \* the rows of the chat_history table, in order of insertion
    history,         \* the sales history read by handle_forecast_intent, per SKU
    prophet,         \* how the forecasting model answers for each SKU
    fits,            \* the calls of run_prophet made by the forecast service, in order
    calls,           \* the run_prophet call of each thread and its position
    cache,           \* the files under cache/prophet/models and cache/prophet/forecasts
    pool,            \* the arguments run_prophet may be called with
    started,         \* number of run_prophet calls begun
    returned         \* the run_prophet calls that have ended, with what they returned

db_vars == <<sales, history, chat_history>>
prophet_vars == <<prophet, fits, calls, cache, pool, started, returned>>
vars == <<text, entities, pc, use_embeddings, embedding_model, nlp, intent,
          params, best_score, globals, schema, out, executed, horizon,
          reply, outcome, sales, chat_history, history, prophet, fits, calls, cache, pool,
          started, returned>>

None == <<"None">>

-----------------------------------------------------------------------------
(* Characters *)

LowerLetters == <<"a", "b", "c", "d", "e", "f", "g", "h", "i", "j", "k", "l", "m", "n", "o", "p", "q", "r", "s", "t", "u", "v", "w", "x", "y", "z">>
UpperLetters == <<"A", "B", "C", "D", "E", "F", "G", "H", "I", "J", "K", "L", "M", "N", "O", "P", "Q", "R", "S", "T", "U", "V", "W", "X", "Y", "Z">>
DigitChars == <<"0", "1", "2", "3", "4", "5", "6", "7", "8", "9">>

Range(s) == {s[i] : i \in DOMAIN s}
LowerSet == Range(LowerLetters)
UpperSet == Range(UpperLetters)
DigitSet == Range(DigitChars)
IndexOf(c, s) == CHOOSE i \in DOMAIN s : s[i] = c

IsDigit(c) == c \in DigitSet
IsAlpha(c) == c \in LowerSet \cup UpperSet
\* \w of the re module on transliterated (ASCII) text
IsWord(c) == IsAlpha(c) \/ IsDigit(c) \/ c = "_"
\* \s ; the texts of the model use the blank as their only white space
IsSpace(c) == c = " "

lowerChar(c) == IF c \in UpperSet THEN LowerLetters[IndexOf(c, UpperLetters)] ELSE c
upperChar(c) == IF c \in LowerSet THEN UpperLetters[IndexOf(c, LowerLetters)] ELSE c
lower(t) == [i \in DOMAIN t |-> lowerChar(t[i])]
upper(t) == [i \in DOMAIN t |-> upperChar(t[i])]

\* unidecode.unidecode: transliteration to ASCII, character by character.
\* A character outside ASCII is written here as its base letter followed by
\* its mark ("u'" is u with acute, "c," is c with cedilla, "EUR" is the euro
\* sign); each is one character of a text.
Accented == <<"a'", "a~", "a^", "e'", "e^", "i'", "o'", "o~", "u'", "c,", "A'", "E'", "O'", "U'", "C,", "EUR">>
Translit == << <<"a">>, <<"a">>, <<"a">>, <<"e">>, <<"e">>, <<"i">>, <<"o">>, <<"o">>, <<"u">>, <<"c">>,
               <<"A">>, <<"E">>, <<"O">>, <<"U">>, <<"C">>, <<"E", "U", "R">> >>
AccentedSet == Range(Accented)
unidecodeChar(c) == IF c \in AccentedSet THEN Translit[IndexOf(c, Accented)] ELSE <<c>>

RECURSIVE Cat(_)
Cat(ss) == IF ss = <<>> THEN <<>> ELSE Head(ss) \o Cat(Tail(ss))
unidecode(t) == Cat([i \in DOMAIN t |-> unidecodeChar(t[i])])

\* str.strip()
RECURSIVE lstrip(_)
lstrip(t) == IF t # <<>> /\ IsSpace(Head(t)) THEN lstrip(Tail(t)) ELSE t
RECURSIVE rstrip(_)
rstrip(t) == IF t # <<>> /\ IsSpace(t[Len(t)]) THEN rstrip(SubSeq(t, 1, Len(t) - 1)) ELSE t
strip(t) == rstrip(lstrip(t))

\* int() of a string of decimal digits
RECURSIVE int(_)
int(d) == IF d = <<>> THEN 0
          ELSE 10 * int(SubSeq(d, 1, Len(d) - 1)) + (IndexOf(d[Len(d)], DigitChars) - 1)

\* t has the characters of w at position i, ignoring case (re.I)
HasAtI(t, i, w) == /\ i >= 1
                   /\ i + Len(w) - 1 <= Len(t)
                   /\ \A k \in 1..Len(w) : lowerChar(t[i + k - 1]) = lowerChar(w[k])
\* t has the characters of w at position i
HasAt(t, i, w) == /\ i >= 1
                  /\ i + Len(w) - 1 <= Len(t)
                  /\ \A k \in 1..Len(w) : t[i + k - 1] = w[k]
\* `w in t`
Contains(t, w) == \E i \in 1..(Len(t) + 1) : HasAt(t, i, w)

WordAt(t, i) == i >= 1 /\ i <= Len(t) /\ IsWord(t[i])
\* \b between positions i-1 and i
Boundary(t, i) == WordAt(t, i - 1) # WordAt(t, i)

\* last index of the longest run of characters satisfying P that starts at
\* i (i - 1 when the run is empty)
RECURSIVE DigitRunEnd(_, _)
DigitRunEnd(t, i) == IF i <= Len(t) /\ IsDigit(t[i]) THEN DigitRunEnd(t, i + 1) ELSE i - 1
RECURSIVE SpaceRunEnd(_, _)
SpaceRunEnd(t, i) == IF i <= Len(t) /\ IsSpace(t[i]) THEN SpaceRunEnd(t, i + 1) ELSE i - 1

Min(S) == CHOOSE m \in S : \A o \in S : m <= o
Max(S) == CHOOSE m \in S : \A o \in S : m >= o

-----------------------------------------------------------------------------
(* RuleIntentClassifier: patterns and extract_entities *)

\* keys and values of MONTHS_PT, in the order of the dict literal
MONTHS_PT_keys == << <<"j", "a", "n", "e", "i", "r", "o">>,
                    <<"f", "e", "v", "e", "r", "e", "i", "r", "o">>,
                    <<"m", "a", "r", "c", "o">>,
                    <<"m", "a", "r", "c,", "o">>,
                    <<"a", "b", "r", "i", "l">>,
                    <<"m", "a", "i", "o">>,
                    <<"j", "u", "n", "h", "o">>,
                    <<"j", "u", "l", "h", "o">>,
                    <<"a", "g", "o", "s", "t", "o">>,
                    <<"s", "e", "t", "e", "m", "b", "r", "o">>,
                    <<"o", "u", "t", "u", "b", "r", "o">>,
                    <<"n", "o", "v", "e", "m", "b", "r", "o">>,
                    <<"d", "e", "z", "e", "m", "b", "r", "o">> >>
MONTHS_PT_vals == << 1, 2, 3, 3, 4, 5, 6, 7, 8, 9, 10, 11, 12 >>
\* MONTHS_PT.get(k): the month number, or -1 for None
MONTHS_PT_get(k) == IF \E i \in DOMAIN MONTHS_PT_keys : MONTHS_PT_keys[i] = k
                    THEN MONTHS_PT_vals[CHOOSE i \in DOMAIN MONTHS_PT_keys : MONTHS_PT_keys[i] = k]
                    ELSE -1

\* str.replace(c with cedilla, "c")
replace_cedilla(t) == [i \in DOMAIN t |-> IF t[i] = "c," THEN "c" ELSE t[i]]

\* SKU_RE = \b[Ss][Kk][Uu][ _-]?(\d+)\b : group 1 of a match that starts
\* at i, or None.  \d+ is greedy; giving digits back never helps, since a
\* digit after a digit is no word boundary.
SKU_RE_at(t, i) ==
    IF ~ (Boundary(t, i) /\ HasAtI(t, i, <<"s", "k", "u">>)) THEN None
    ELSE LET sep == i + 3 <= Len(t) /\ t[i + 3] \in {" ", "_", "-"}
             try(d) == LET e == DigitRunEnd(t, d)
                       IN IF e >= d /\ Boundary(t, e + 1) THEN SubSeq(t, d, e) ELSE None
         IN IF sep /\ try(i + 4) # None THEN try(i + 4) ELSE try(i + 3)

\* a search that reports the rightmost match instead of the leftmost
SKU_RE_search_last(t) ==
    LET hits == {i \in 1..Len(t) : SKU_RE_at(t, i) # None}
    IN IF hits = {} THEN None ELSE SKU_RE_at(t, Max(hits))

\* SKU_RE.search(t): group 1 of the leftmost match, or None
SKU_RE_search(t) ==
    LET hits == {i \in 1..Len(t) : SKU_RE_at(t, i) # None}
    IN IF hits = {} THEN None ELSE SKU_RE_at(t, Min(hits))

\* 20\d{2} at position i
Year4At(t, i) == /\ i >= 1 /\ i + 3 <= Len(t)
                 /\ t[i] = "2" /\ t[i + 1] = "0"
                 /\ IsDigit(t[i + 2]) /\ IsDigit(t[i + 3])

\* YEAR_RE = \b(20\d{2})\b ; findall from position i on, as integers
RECURSIVE YEAR_RE_findall(_, _)
YEAR_RE_findall(t, i) ==
    IF i > Len(t) THEN <<>>
    ELSE IF Boundary(t, i) /\ Year4At(t, i) /\ Boundary(t, i + 4)
         THEN <<int(SubSeq(t, i, i + 3))>> \o YEAR_RE_findall(t, i + 4)
         ELSE YEAR_RE_findall(t, i + 1)

\* the month alternatives of MONTH_WITH_YEAR_RE on transliterated text
MonthAlternatives == << <<"j", "a", "n", "e", "i", "r", "o">>,
                       <<"f", "e", "v", "e", "r", "e", "i", "r", "o">>,
                       <<"m", "a", "r", "c", "o">>,
                       <<"a", "b", "r", "i", "l">>,
                       <<"m", "a", "i", "o">>,
                       <<"j", "u", "n", "h", "o">>,
                       <<"j", "u", "l", "h", "o">>,
                       <<"a", "g", "o", "s", "t", "o">>,
                       <<"s", "e", "t", "e", "m", "b", "r", "o">>,
                       <<"o", "u", "t", "u", "b", "r", "o">>,
                       <<"n", "o", "v", "e", "m", "b", "r", "o">>,
                       <<"d", "e", "z", "e", "m", "b", "r", "o">> >>

\* MONTH_WITH_YEAR_RE = (month)\s*(?:de\s*)?(20\d{2}), re.I : a match that
\* starts at i as [m, y, last], or NoMonthMatch
NoMonthMatch == [m |-> <<>>, y |-> <<>>, last |-> 0]
MONTH_WITH_YEAR_RE_at(t, i) ==
    LET alts == {a \in DOMAIN MonthAlternatives : HasAtI(t, i, MonthAlternatives[a])}
    IN IF alts = {} THEN NoMonthMatch
       ELSE LET name == MonthAlternatives[Min(alts)]
                s == SpaceRunEnd(t, i + Len(name)) + 1
                y == IF HasAtI(t, s, <<"d", "e">>) /\ Year4At(t, SpaceRunEnd(t, s + 2) + 1)
                     THEN SpaceRunEnd(t, s + 2) + 1
                     ELSE s
            IN IF Year4At(t, y)
               THEN [m |-> SubSeq(t, i, i + Len(name) - 1), y |-> SubSeq(t, y, y + 3), last |-> y + 3]
               ELSE NoMonthMatch

\* findall + the list comprehension of extract_entities
RECURSIVE months_from(_, _)
months_from(t, i) ==
    IF i > Len(t) THEN <<>>
    ELSE LET mt == MONTH_WITH_YEAR_RE_at(t, i)
         IN IF mt.last = 0 THEN months_from(t, i + 1)
            ELSE LET mn == MONTHS_PT_get(replace_cedilla(lower(mt.m)))
                 IN (IF mn > 0 THEN <<[month |-> mn, year |-> int(mt.y)]>> ELSE <<>>)
                    \o months_from(t, mt.last + 1)

\* NUMBER_RE = \btop\s*(\d+)\b|\b(\d+)\s*(top|maiores|principais)\b, re.I :
\* group(1) or group(2) of a match that starts at i, or None
NumberWords == << <<"t", "o", "p">>, <<"m", "a", "i", "o", "r", "e", "s">>,
                  <<"p", "r", "i", "n", "c", "i", "p", "a", "i", "s">> >>
NUMBER_RE_at(t, i) ==
    IF ~ Boundary(t, i) THEN None
    ELSE LET d1 == SpaceRunEnd(t, i + 3) + 1
             e1 == DigitRunEnd(t, d1)
             e2 == DigitRunEnd(t, i)
             w2 == SpaceRunEnd(t, e2 + 1) + 1
         IN IF HasAtI(t, i, <<"t", "o", "p">>) /\ e1 >= d1 /\ Boundary(t, e1 + 1)
            THEN SubSeq(t, d1, e1)
            ELSE IF e2 >= i /\ \E k \in DOMAIN NumberWords :
                                  HasAtI(t, w2, NumberWords[k]) /\ Boundary(t, w2 + Len(NumberWords[k]))
                 THEN SubSeq(t, i, e2)
                 ELSE None

NUMBER_RE_search(t) ==
    LET hits == {i \in 1..Len(t) : NUMBER_RE_at(t, i) # None}
    IN IF hits = {} THEN None ELSE NUMBER_RE_at(t, Min(hits))

\* [A-Za-z0-9\-_ &]
ClientClass(c) == IsAlpha(c) \/ IsDigit(c) \/ c \in {"-", "_", " ", "&"}
RECURSIVE ClientRunEnd(_, _)
ClientRunEnd(t, i) == IF i <= Len(t) /\ ClientClass(t[i]) THEN ClientRunEnd(t, i + 1) ELSE i - 1

\* \s*[:#]?\s*([A-Za-z0-9\-_ &]+) from position p: group 1, or None.  The
\* engine tries the longest first \s*, then [:#] taken before skipped, then
\* the longest second \s*, and stops at the first way that lets the group
\* match; the group itself is greedy.
ClientTail(t, p) ==
    LET w == SpaceRunEnd(t, p) - p + 1
        ways == {x \in (0..w) \X {0, 1} \X (0..Len(t)) :
                   LET q == p + x[1]
                       r == q + x[2]
                   IN /\ (x[2] = 1 => (q <= Len(t) /\ t[q] \in {":", "#"}))
                      /\ x[3] <= SpaceRunEnd(t, r) - r + 1
                      /\ r + x[3] <= Len(t)
                      /\ ClientClass(t[r + x[3]])}
        before(x, y) == \/ x[1] > y[1]
                        \/ x[1] = y[1] /\ x[2] > y[2]
                        \/ x[1] = y[1] /\ x[2] = y[2] /\ x[3] >= y[3]
    IN IF ways = {} THEN None
       ELSE LET x == CHOOSE x \in ways : \A y \in ways : before(x, y)
                g == p + x[1] + x[2] + x[3]
            IN SubSeq(t, g, ClientRunEnd(t, g))

\* (?:cliente|client) followed by the tail, for a match that starts at i
client_match_at(t, i) ==
    IF HasAtI(t, i, <<"c", "l", "i", "e", "n", "t", "e">>) /\ ClientTail(t, i + 7) # None
    THEN ClientTail(t, i + 7)
    ELSE IF HasAtI(t, i, <<"c", "l", "i", "e", "n", "t">>)
         THEN ClientTail(t, i + 6)
         ELSE None

client_search(t) ==
    LET hits == {i \in 1..Len(t) : client_match_at(t, i) # None}
    IN IF hits = {} THEN None ELSE client_match_at(t, Min(hits))

\* re.fullmatch(r"\d{2,6}", raw)
fullmatch_2_6_digits(raw) == Len(raw) >= 2 /\ Len(raw) <= 6 /\ \A k \in DOMAIN raw : IsDigit(raw[k])

NoClient == [kind |-> "none"]

\* RuleIntentClassifier.extract_entities
extract_entities(t) ==
    LET text_norm == unidecode(t)
        sku_match == SKU_RE_search(text_norm)
        mnum == NUMBER_RE_search(text_norm)
        client_match == client_search(text_norm)
    IN [sku |-> IF sku_match # None THEN upper(<<"S", "K", "U", "_">> \o sku_match) ELSE None,
        months |-> months_from(text_norm, 1),
        years |-> YEAR_RE_findall(text_norm, 1),
        n |-> IF mnum # None THEN int(mnum) ELSE -1,
        client |-> IF client_match = None THEN NoClient
                   ELSE LET client_raw == strip(client_match)
                        IN IF fullmatch_2_6_digits(client_raw)
                           THEN [kind |-> "int", v |-> int(client_raw)]
                           ELSE [kind |-> "str", v |-> client_raw]]

-----------------------------------------------------------------------------
(* RuleIntentClassifier: construction, semantic detection, execute *)

\* similarities are cosine similarities times 100
SEMANTIC_THRESHOLD == 35
MIN_SCORE_DELTA == 5
NegInf == -1000

\* the keys of INTENT_EXAMPLES, in the order of the dict literal
INTENT_EXAMPLES_keys == << "greeting",
                          "farewell",
                          "predict_stockout",
                          "predict_top_sales",
                          "predict_sku_sales",
                          "sales_between_dates",
                          "top_n_skus",
                          "sales_time_series",
                          "sales_time_series_sku",
                          "sku_sales_compare",
                          "sku_best_month",
                          "active_clients_count",
                          "distinct_products_count",
                          "stock_by_client",
                          "total_stock" >>
\* the example phrases of the greeting and farewell intents
INTENT_EXAMPLES_greeting == { <<"o", "i">>,
                              <<"o", "l", "a'">>,
                              <<"e", "a", "e">>,
                              <<"t", "u", "d", "o", " ", "b", "e", "m", "?">>,
                              <<"b", "o", "m", " ", "d", "i", "a">>,
                              <<"b", "o", "a", " ", "t", "a", "r", "d", "e">>,
                              <<"b", "o", "a", " ", "n", "o", "i", "t", "e">>,
                              <<"h", "e", "y">>,
                              <<"f", "a", "l", "a">>,
                              <<"s", "a", "l", "v", "e">>,
                              <<"i", "a", "i">>,
                              <<"c", "o", "m", "o", " ", "v", "a", "i">>,
                              <<"t", "u", "d", "o", " ", "c", "e", "r", "t", "o", "?">>,
                              <<"o", "i", ",", " ", "t", "u", "d", "o", " ", "b", "e", "m", "?">> }
INTENT_EXAMPLES_farewell == { <<"t", "c", "h", "a", "u">>,
                              <<"a", "t", "e'", " ", "m", "a", "i", "s">>,
                              <<"a", "t", "e'", " ", "l", "o", "g", "o">>,
                              <<"v", "a", "l", "e", "u">>,
                              <<"f", "l", "w">>,
                              <<"a", "d", "e", "u", "s">>,
                              <<"b", "y", "e">>,
                              <<"o", "b", "r", "i", "g", "a", "d", "o">>,
                              <<"o", "b", "r", "i", "g", "a", "d", "a">>,
                              <<"a", "t", "e'", " ", "a", " ", "p", "r", "o'", "x", "i", "m", "a">>,
                              <<"f", "a", "l", "o", "u">>,
                              <<"e", "n", "c", "e", "r", "r", "a", "r">>,
                              <<"f", "i", "n", "a", "l", "i", "z", "a", "r">>,
                              <<"f", "i", "m">> }

\* VOCAB_KEY_TO_INTENT.get(k): the canonical intent of an alias, else None
VOCAB_KEY_TO_INTENT_get(k) == IF k = "sales_time_series_sku" THEN "sales_time_series" ELSE "None"

\* RuleIntentClassifier.__init__: the fields of the new instance and the
\* module globals after it.  import_ok: sentence_transformers imports;
\* cached: the model is in the local hub cache; load_ok: SentenceTransformer()
\* returns; encode_ok: encoding the examples returns; spacy_ok: spacy.load
\* returns.
RuleIntentClassifier_init(g, use_arg, allow_model_download, import_ok, cached, load_ok, encode_ok, spacy_ok) ==
    LET parser == g.parser \/ spacy_ok
        off(model, gm, ge) == [use_embeddings |-> FALSE, embedding_model |-> model, nlp |-> parser,
                                globals |-> [parser |-> parser, model |-> gm, examples |-> ge]]
        on == [use_embeddings |-> TRUE, embedding_model |-> TRUE, nlp |-> parser,
               globals |-> [parser |-> parser, model |-> TRUE, examples |-> TRUE]]
    IN IF ~ use_arg \/ ~ import_ok THEN off(FALSE, g.model, g.examples)
       ELSE IF ~ allow_model_download /\ ~ cached
            \* use_embeddings = False, then the assignments after the if/else still run
            THEN IF g.model /\ (g.examples \/ encode_ok)
                 THEN off(TRUE, TRUE, TRUE)
                 ELSE off(g.model, g.model, g.examples)
            ELSE IF ~ g.model /\ ~ load_ok THEN off(FALSE, FALSE, g.examples)
                 ELSE IF g.examples \/ encode_ok THEN on
                      ELSE off(TRUE, TRUE, FALSE)

\* the loop of _semantic_detect over the examples from key number i on
RECURSIVE semantic_loop(_, _, _)
semantic_loop(sims, i, acc) ==
    IF i > Len(INTENT_EXAMPLES_keys) THEN acc
    ELSE LET k == INTENT_EXAMPLES_keys[i]
             sim == sims[k]
         IN semantic_loop(sims, i + 1,
               IF sim > acc.best_score
               THEN [best_intent |-> k, best_score |-> sim, second_score |-> acc.best_score]
               ELSE IF sim > acc.second_score
                    THEN [acc EXCEPT !.second_score = sim]
                    ELSE acc)

\* RuleIntentClassifier._semantic_detect; sims[k] is the cosine similarity of
\* the text against the mean embedding of the examples of key k
semantic_detect(use, model, sims) ==
    IF ~ use \/ ~ model THEN [best_intent |-> "None", best_score |-> 0, second_score |-> 0]
    ELSE LET r == semantic_loop(sims, 1, [best_intent |-> "None", best_score |-> NegInf, second_score |-> NegInf])
         IN [best_intent |-> r.best_intent,
             best_score |-> IF r.best_score = NegInf THEN 0 ELSE r.best_score,
             second_score |-> IF r.second_score = NegInf THEN 0 ELSE r.second_score]

\* detect_intent returning the vocabulary key as it stands, without the
\* VOCAB_KEY_TO_INTENT lookup
detect_intent_no_alias(use, model, sims) ==
    IF ~ use \/ ~ model THEN "unknown_intent"
    ELSE LET best_intent == semantic_detect(use, model, sims).best_intent
         IN IF best_intent # "None" THEN best_intent ELSE "unknown_intent"

\* RuleIntentClassifier.detect_intent
detect_intent(use, model, sims) ==
    IF ~ use \/ ~ model THEN "unknown_intent"
    ELSE LET best_intent == semantic_detect(use, model, sims).best_intent
         IN IF best_intent # "None"
            THEN IF VOCAB_KEY_TO_INTENT_get(best_intent) # "None"
                 THEN VOCAB_KEY_TO_INTENT_get(best_intent)
                 ELSE best_intent
            ELSE "unknown_intent"

NoParams == [k \in {} |-> None]

\* the intents for which execute copies entities into params
EntityIntents == {"predict_stockout", "predict_sku_sales", "predict_top_sales",
                  "sku_sales_compare", "sku_best_month", "sales_between_dates",
                  "top_n_skus", "stock_by_client", "sales_time_series"}

\* ent.label_.lower() for the labels a parser may attach
label_lower(l) == CASE l = "PRODUCT" -> "product"
                    [] l = "PRODUTO" -> "produto"
                    [] l = "SKU" -> "sku"
                    [] l = "LOC" -> "loc"
                    [] l = "MISC" -> "misc"
                    [] l = "ORG" -> "org"
                    [] l = "PER" -> "per"
                    [] OTHER -> l

\* the loop of execute over doc.ents from entity number i on
RECURSIVE ner_loop(_, _, _)
ner_loop(e, ents, i) ==
    IF i > Len(ents) THEN e
    ELSE ner_loop(IF label_lower(ents[i].label) \in {"product", "produto", "sku"}
                  THEN [e EXCEPT !.sku = ents[i].text]
                  ELSE e,
                  ents, i + 1)

\* the try block of execute around the parser: ner.raises when self._nlp(text)
\* throws, ner.ents is doc.ents otherwise
ner_pass(e, has_nlp, ner) ==
    IF ~ has_nlp \/ ner.raises THEN e ELSE ner_loop(e, ner.ents, 1)

\* truthiness of the client entity
client_truthy(c) == \/ c.kind = "int" /\ c.v # 0
                    \/ c.kind = "str" /\ c.v # <<>>

\* execute_params keeping the text only under the tag "unknown"
execute_params_unknown_tag(best_intent, e, t) ==
    LET q == best_intent \in EntityIntents
        opt(cond, k, v) == IF cond THEN k :> v ELSE NoParams
    IN opt(q /\ e.sku # None /\ e.sku # <<>>, "sku", e.sku)
       @@ opt(q /\ e.months # <<>>, "months", e.months)
       @@ opt(q /\ e.years # <<>>, "years", e.years)
       @@ opt(best_intent = "top_n_skus" /\ e.n > 0, "n", e.n)
       @@ opt(best_intent = "stock_by_client" /\ client_truthy(e.client), "client", e.client)
       @@ (IF best_intent = "sales_between_dates" /\ Len(e.months) >= 2
           THEN ("start" :> e.months[1]) @@ ("end" :> e.months[2])
           ELSE IF best_intent = "sales_between_dates" /\ Len(e.years) >= 2
                THEN ("start" :> [year |-> e.years[1]]) @@ ("end" :> [year |-> e.years[2]])
                ELSE NoParams)
       @@ (IF best_intent # "predict_top_sales" THEN NoParams
           ELSE IF e.months # <<>>
                THEN "period" :> [type |-> "month", month |-> e.months[1].month, year |-> e.months[1].year]
                ELSE IF e.years # <<>>
                     THEN "period" :> [type |-> "year", year |-> e.years[1]]
                     ELSE "period" :> [type |-> "next_month"])
       @@ opt(best_intent = "unknown", "original_text", t)

\* the params dict that execute builds from best_intent and the entities
execute_params(best_intent, e, t) ==
    LET q == best_intent \in EntityIntents
        opt(cond, k, v) == IF cond THEN k :> v ELSE NoParams
    IN opt(q /\ e.sku # None /\ e.sku # <<>>, "sku", e.sku)
       @@ opt(q /\ e.months # <<>>, "months", e.months)
       @@ opt(q /\ e.years # <<>>, "years", e.years)
       @@ opt(best_intent = "top_n_skus" /\ e.n > 0, "n", e.n)
       @@ opt(best_intent = "stock_by_client" /\ client_truthy(e.client), "client", e.client)
       @@ (IF best_intent = "sales_between_dates" /\ Len(e.months) >= 2
           THEN ("start" :> e.months[1]) @@ ("end" :> e.months[2])
           ELSE IF best_intent = "sales_between_dates" /\ Len(e.years) >= 2
                THEN ("start" :> [year |-> e.years[1]]) @@ ("end" :> [year |-> e.years[2]])
                ELSE NoParams)
       @@ (IF best_intent # "predict_top_sales" THEN NoParams
           ELSE IF e.months # <<>>
                THEN "period" :> [type |-> "month", month |-> e.months[1].month, year |-> e.months[1].year]
                ELSE IF e.years # <<>>
                     THEN "period" :> [type |-> "year", year |-> e.years[1]]
                     ELSE "period" :> [type |-> "next_month"])
       @@ opt(best_intent = "unknown_intent", "original_text", t)

\* RuleIntentClassifier.execute after its call of extract_entities, whose
\* value is e0.  sims and embed_ok describe the embedding model on this text
\* (embed_ok: encode returns), ner the parser.
execute_from(c, t, e0, sims, embed_ok, ner) ==
    IF c.use_embeddings /\ c.embedding_model /\ ~ embed_ok
    THEN [raised |-> TRUE, intent |-> "", params |-> NoParams, best_score |-> 0]
    ELSE LET best_intent == detect_intent(c.use_embeddings, c.embedding_model, sims)
             e == ner_pass(e0, c.nlp, ner)
         IN [raised |-> FALSE,
             intent |-> best_intent,
             params |-> execute_params(best_intent, e, t),
             best_score |-> semantic_detect(c.use_embeddings, c.embedding_model, sims).best_score]

\* RuleIntentClassifier.execute
RuleIntentClassifier_execute(c, t, sims, embed_ok, ner) ==
    execute_from(c, t, extract_entities(t), sims, embed_ok, ner)

-----------------------------------------------------------------------------
(* SQLQueryBuilder / SQLUtils: schema lookup *)

\* A schema is the sequence of the tables the inspector lists; a table is
\* [name, columns], a column [name, type], type being the class name of the
\* reflected SQL type.

NoName == None

\* inspector.get_columns(table)
get_columns(sch, table) ==
    IF \E i \in DOMAIN sch : sch[i].name = table
    THEN sch[CHOOSE i \in DOMAIN sch : sch[i].name = table].columns
    ELSE <<>>
col_names(sch, table) == {get_columns(sch, table)[i].name : i \in DOMAIN get_columns(sch, table)}

\* the loops of _find_table from pair number k on; pairs are ordered by
\* candidate first, table second
RECURSIVE find_table_from(_, _, _)
find_table_from(sch, candidates, k) ==
    IF k > Len(candidates) * Len(sch) THEN NoName
    ELSE LET cand == candidates[((k - 1) \div Len(sch)) + 1]
             t == sch[((k - 1) % Len(sch)) + 1].name
         IN IF Contains(lower(t), cand) THEN t
            ELSE find_table_from(sch, candidates, k + 1)

\* SQLQueryBuilder._find_table and SQLUtils._find_table
find_table(sch, candidates) == find_table_from(sch, candidates, 1)

endswith(t, w) == Len(w) <= Len(t) /\ HasAt(t, Len(t) - Len(w) + 1, w)
startswith(t, w) == HasAt(t, 1, w)

IdentifierCands == { <<"s", "k", "u">>, <<"p", "r", "o", "d", "u", "t", "o">>, <<"p", "r", "o", "d", "u", "t", "o", "_", "i", "d">>, <<"c", "o", "d", "_", "p", "r", "o", "d", "u", "t", "o">>, <<"c", "o", "d", "i", "g", "o">>, <<"c", "o", "d">> }
QuantityCands == { <<"q", "u", "a", "n", "t">>,
                   <<"q", "t", "d">>,
                   <<"q", "t", "y">>,
                   <<"a", "m", "o", "u", "n", "t">>,
                   <<"v", "a", "l", "o", "r">>,
                   <<"e", "s", "_", "t", "o", "t", "a", "l", "e", "s", "t", "o", "q", "u", "e">>,
                   <<"g", "i", "r", "o", "_", "s", "k", "u", "_", "c", "l", "i", "e", "n", "t", "e">>,
                   <<"z", "s", "_", "p", "e", "s", "o", "_", "l", "i", "q", "u", "i", "d", "o">> }

\* the score _find_column gives to column col for candidate cand
column_score(cand, col) ==
    LET lcand == lower(cand)
        lname == lower(col.name)
        type_name == lower(col.type)
    IN (IF lname = lcand THEN 100 ELSE 0)
       + (IF endswith(lname, <<"_">> \o lcand) THEN 50 ELSE 0)
       + (IF startswith(lname, lcand \o <<"_">>) THEN 30 ELSE 0)
       + (IF Contains(lname, lcand) THEN 10 ELSE 0)
       + (IF /\ lcand \in IdentifierCands
             /\ \/ Contains(type_name, <<"c", "h", "a", "r">>)
                \/ Contains(type_name, <<"s", "t", "r", "i", "n", "g">>)
                \/ Contains(type_name, <<"v", "a", "r", "c", "h", "a", "r">>)
          THEN 20 ELSE 0)
       + (IF /\ lcand \in QuantityCands
             /\ \/ Contains(type_name, <<"n", "u", "m", "e", "r", "i", "c">>)
                \/ Contains(type_name, <<"i", "n", "t", "e", "g", "e", "r">>)
                \/ Contains(type_name, <<"f", "l", "o", "a", "t">>)
                \/ Contains(type_name, <<"d", "e", "c", "i", "m", "a", "l">>)
          THEN 20 ELSE 0)

\* the loops of _find_column keeping the last pair that reaches the best
\* score (score >= best[0]) instead of the first
RECURSIVE find_column_from_last_wins(_, _, _, _)
find_column_from_last_wins(cols, candidates, k, best) ==
    IF k > Len(candidates) * Len(cols) THEN best[2]
    ELSE LET cand == candidates[((k - 1) \div Len(cols)) + 1]
             col == cols[((k - 1) % Len(cols)) + 1]
             score == column_score(cand, col)
         IN IF score >= best[1] /\ score > 0
            THEN find_column_from_last_wins(cols, candidates, k + 1, <<score, col.name>>)
            ELSE find_column_from_last_wins(cols, candidates, k + 1, best)

\* the loops of _find_column from pair number k on, best = <<score, name>>
RECURSIVE find_column_from(_, _, _, _)
find_column_from(cols, candidates, k, best) ==
    IF k > Len(candidates) * Len(cols) THEN best[2]
    ELSE LET cand == candidates[((k - 1) \div Len(cols)) + 1]
             col == cols[((k - 1) % Len(cols)) + 1]
             score == column_score(cand, col)
         IN IF score > best[1]
            THEN find_column_from(cols, candidates, k + 1, <<score, col.name>>)
            ELSE find_column_from(cols, candidates, k + 1, best)

\* _find_column with the loops swapped: columns outside, candidates inside
find_column_columns_first(sch, table, candidates) ==
    LET cols == get_columns(sch, table)
        pass(k) == find_column_from(<<cols[k]>>, candidates, 1, <<0, NoName>>)
        top(k) == Max({column_score(candidates[c], cols[k]) : c \in DOMAIN candidates})
        scored == {k \in DOMAIN cols : top(k) > 0}
    IN IF scored = {} \/ candidates = <<>> THEN NoName
       ELSE pass(Min({k \in scored : \A j \in scored : top(j) <= top(k)}))

\* SQLQueryBuilder._find_column and SQLUtils._find_column
find_column(sch, table, candidates) ==
    find_column_from(get_columns(sch, table), candidates, 1, <<0, NoName>>)

\* the candidate lists of SQLQueryBuilder.execute and ForecastService
StockTableCands == << <<"e", "s", "t", "o", "q", "u", "e">>, <<"s", "t", "o", "c", "k">>, <<"i", "n", "v", "e", "n", "t", "o", "r", "y">> >>
SalesTableCands == << <<"f", "a", "t", "u", "r", "a", "m", "e", "n", "t", "o">>, <<"v", "e", "n", "d", "a">>, <<"s", "a", "l", "e", "s">>, <<"f", "a", "t", "u", "r">> >>
ClientTableCands == << <<"c", "l", "i", "e", "n", "t", "e", "s">>, <<"c", "l", "i", "e", "n", "t", "s">>, <<"c", "u", "s", "t", "o", "m", "e", "r", "s">> >>
StockQtyCands == << <<"q", "u", "a", "n", "t">>, <<"q", "t", "d">>, <<"q", "t", "y">>, <<"a", "m", "o", "u", "n", "t">>, <<"s", "a", "l", "d", "o">> >>
StockSkuCands == << <<"s", "k", "u">>, <<"p", "r", "o", "d", "u", "t", "o">>, <<"p", "r", "o", "d", "u", "t", "o", "_", "i", "d">>, <<"c", "o", "d", "i", "g", "o">>, <<"c", "o", "d", "_", "c", "l", "i", "e", "n", "t", "e">>, <<"c", "o", "d">> >>
StatusCands == << <<"a", "t", "i", "v", "o">>, <<"i", "s", "_", "a", "c", "t", "i", "v", "e">>, <<"a", "c", "t", "i", "v", "e">>, <<"s", "t", "a", "t", "u", "s">> >>
StatusNames == << <<"i", "s", "_", "a", "c", "t", "i", "v", "e">>, <<"a", "t", "i", "v", "o">>, <<"a", "c", "t", "i", "v", "e">> >>
SalesSkuCands == << <<"s", "k", "u">>, <<"p", "r", "o", "d", "u", "t", "o">>, <<"c", "o", "d", "i", "g", "o">>, <<"c", "o", "d">>, <<"c", "o", "d", "_", "p", "r", "o", "d", "u", "t", "o">> >>
SalesQtyCands == << <<"q", "u", "a", "n", "t">>, <<"q", "t", "d">>, <<"q", "t", "y">>, <<"a", "m", "o", "u", "n", "t">>, <<"v", "a", "l", "o", "r">>, <<"g", "i", "r", "o">> >>
SalesDateCands == << <<"d", "a", "t", "a">>, <<"d", "a", "t", "e">>, <<"m", "e", "s">>, <<"p", "e", "r", "i", "o", "d", "o">> >>
SeriesSkuCands == << <<"s", "k", "u">>, <<"p", "r", "o", "d", "u", "t", "o">>, <<"c", "o", "d", "i", "g", "o">>, <<"c", "o", "d">> >>
SeriesQtyCands == << <<"q", "u", "a", "n", "t">>, <<"q", "t", "d">>, <<"q", "t", "y">>, <<"a", "m", "o", "u", "n", "t">>, <<"v", "a", "l", "o", "r">> >>
StockClientCands == << <<"c", "o", "d", "_", "c", "l", "i", "e", "n", "t", "e">>, <<"c", "l", "i", "e", "n", "t", "e">>, <<"c", "o", "d", "c", "l", "i", "e", "n", "t">>, <<"c", "l", "i", "e", "n", "t">> >>

\* `name if name in cols else self._find_column(table, candidates)`
named_or_found(sch, table, name, candidates) ==
    IF name \in col_names(sch, table) THEN name ELSE find_column(sch, table, candidates)

-----------------------------------------------------------------------------
(* SQLQueryBuilder.execute and ForecastService.handle_forecast_intent *)

\* how an f-string renders a column name that is None
fstr(name) == IF name = NoName THEN <<"N", "o", "n", "e">> ELSE name
\* `col if col else 'null'`
or_null(name) == IF name = NoName THEN <<"n", "u", "l", "l">> ELSE name

\* A statement as handed to conn.execute: the intent whose template it is,
\* the table, the column identifiers interpolated into the text (in order),
\* the where clauses and the bound values.
Statement(i, table, idents, where, bind) ==
    [intent |-> i, table |-> table, idents |-> idents, where |-> where, bind |-> bind]

\* the database rejects a statement that names a column the table lacks;
\* db.fails stands for any other failure of the connection or the statement
db_raises(sch, db, st) ==
    db.fails \/ \E i \in DOMAIN st.idents : st.idents[i] \notin col_names(sch, st.table)

\* results of execute
Raised(kind, qs) == [status |-> kind, out |-> [kind |-> "none"], executed |-> qs, horizon |-> 0]
Returned(o, qs) == [status |-> "ok", out |-> o, executed |-> qs, horizon |-> 0]
\* run one statement and return make(value), or raise what the database raises
RunOne(sch, db, st, o) ==
    IF db_raises(sch, db, st) THEN Raised("DBError", <<st>>) ELSE Returned(o, <<st>>)

has(p, k) == k \in DOMAIN p
\* x or 0 for a scalar that may be NULL (-1)
or0(x) == IF x = -1 THEN 0 ELSE x
\* int(r or 0) for the sum of a Numeric column: the sum is held in halves
\* (x stands for x/2, -1 for NULL) and int() drops the fraction
int_or0(x) == IF x = -1 THEN 0 ELSE x \div 2

\* int(params["client"]): raises ValueError unless the string is a decimal
\* literal (an optional sign, digits, single underscores between digits)
RECURSIVE digits_us(_, _)
digits_us(t, i) ==
    IF i > Len(t) THEN TRUE
    ELSE IF IsDigit(t[i]) THEN digits_us(t, i + 1)
         ELSE t[i] = "_" /\ i > 1 /\ i < Len(t) /\ IsDigit(t[i - 1]) /\ IsDigit(t[i + 1])
              /\ digits_us(t, i + 1)
int_parses(c) ==
    \/ c.kind = "int"
    \/ /\ c.kind = "str"
       /\ LET body == IF c.v # <<>> /\ c.v[1] = "-" THEN Tail(c.v) ELSE c.v
          IN body # <<>> /\ IsDigit(body[1]) /\ digits_us(body, 1)

execute_total_stock(sch, db) ==
    LET table == find_table(sch, StockTableCands)
        direct == IF table = <<"e", "s", "t", "o", "q", "u", "e">> /\ <<"e", "s", "_", "t", "o", "t", "a", "l", "e", "s", "t", "o", "q", "u", "e">> \in col_names(sch, table)
                  THEN <<"e", "s", "_", "t", "o", "t", "a", "l", "e", "s", "t", "o", "q", "u", "e">> ELSE NoName
        qty_col == IF direct # NoName THEN direct ELSE find_column(sch, table, StockQtyCands)
    IN IF table = NoName THEN Raised("ValueError: table", <<>>)
       ELSE IF qty_col = NoName THEN Raised("ValueError: column", <<>>)
       ELSE RunOne(sch, db, Statement("total_stock", table, <<qty_col>>, <<>>, NoParams),
                   [kind |-> "total_stock", total_stock |-> or0(db.scalar)])

execute_distinct_products_count(sch, db) ==
    LET table == find_table(sch, StockTableCands)
        direct == IF table = <<"e", "s", "t", "o", "q", "u", "e">> /\ <<"s", "k", "u">> \in col_names(sch, table)
                  THEN <<"s", "k", "u">> ELSE NoName
        sku_col == IF direct # NoName THEN direct ELSE find_column(sch, table, StockSkuCands)
    IN IF table = NoName THEN Raised("ValueError: table", <<>>)
       ELSE IF sku_col = NoName THEN Raised("ValueError: column", <<>>)
       ELSE RunOne(sch, db, Statement("distinct_products_count", table, <<sku_col>>, <<>>, NoParams),
                   [kind |-> "distinct_products", distinct_products |-> or0(db.scalar)])

execute_active_clients_count(sch, db) ==
    LET table == find_table(sch, ClientTableCands)
        found == find_column(sch, table, StatusCands)
        named == {i \in DOMAIN StatusNames : StatusNames[i] \in col_names(sch, table)}
        status_col == IF found # NoName THEN found
                      ELSE IF named # {} THEN StatusNames[Min(named)] ELSE NoName
        cols == get_columns(sch, table)
        type_name == lower(cols[CHOOSE i \in DOMAIN cols : cols[i].name = status_col].type)
        active_value == IF Contains(type_name, <<"b", "o", "o", "l">>) THEN "True" ELSE "ativo"
    IN IF table = NoName THEN Raised("ValueError: table", <<>>)
       ELSE IF status_col = NoName
            THEN RunOne(sch, db, Statement("active_clients_count", table, <<>>, <<>>, NoParams),
                        [kind |-> "active_clients", active_clients |-> or0(db.scalar), note |-> TRUE])
            ELSE RunOne(sch, db, Statement("active_clients_count", table, <<status_col>>, <<"status">>,
                                           "status" :> active_value),
                        [kind |-> "active_clients", active_clients |-> or0(db.scalar), note |-> FALSE])

execute_sku_sales_compare(sch, db, prm) ==
    LET fatur_table == find_table(sch, SalesTableCands)
        sku_col == named_or_found(sch, fatur_table, <<"S", "K", "U">>, SalesSkuCands)
        qty_col == named_or_found(sch, fatur_table, <<"g", "i", "r", "o", "_", "s", "k", "u", "_", "c", "l", "i", "e", "n", "t", "e">>, SalesQtyCands)
        date_col == named_or_found(sch, fatur_table, <<"d", "a", "t", "a">>, SalesDateCands)
        sku == IF has(prm, "sku") THEN prm.sku ELSE None
    IN IF fatur_table = NoName THEN Raised("ValueError: table", <<>>)
       ELSE IF sku_col = NoName \/ qty_col = NoName THEN Raised("ValueError: column", <<>>)
       ELSE IF has(prm, "periods") /\ prm.periods # <<>>
            THEN IF Len(prm.periods) # 2 THEN Raised("ValueError: unpack", <<>>)
                 ELSE LET st(p) == Statement("sku_sales_compare", fatur_table,
                                             <<qty_col, sku_col, fstr(date_col), fstr(date_col)>>,
                                             <<"sku", "month", "year">>,
                                             ("sku" :> sku) @@ ("m" :> p.month) @@ ("y" :> p.year))
                          st1 == st(prm.periods[1])
                          st2 == st(prm.periods[2])
                      IN IF db_raises(sch, db, st1) THEN Raised("DBError", <<st1>>)
                         ELSE Returned([kind |-> "compare_periods", sku |-> sku,
                                        period1 |-> int_or0(db.scalar), period2 |-> int_or0(db.scalar2)],
                                       <<st1, st2>>)
            ELSE IF has(prm, "years") /\ prm.years # <<>>
                 THEN IF Len(prm.years) # 2 THEN Raised("ValueError: unpack", <<>>)
                      ELSE LET st(y) == Statement("sku_sales_compare", fatur_table,
                                                  <<qty_col, sku_col, or_null(date_col)>>,
                                                  <<"sku", "year">>,
                                                  ("sku" :> sku) @@ ("y" :> y))
                               st1 == st(prm.years[1])
                               st2 == st(prm.years[2])
                           IN IF db_raises(sch, db, st1) THEN Raised("DBError", <<st1>>)
                              ELSE Returned([kind |-> "compare_years", sku |-> sku,
                                             year1 |-> int_or0(db.scalar), year2 |-> int_or0(db.scalar2)],
                                            <<st1, st2>>)
                 ELSE Raised("ValueError: periods", <<>>)

execute_sku_best_month(sch, db, prm) ==
    LET fatur_table == find_table(sch, SalesTableCands)
        sku_col == named_or_found(sch, fatur_table, <<"s", "k", "u">>, SalesSkuCands)
        qty_col == named_or_found(sch, fatur_table, <<"g", "i", "r", "o", "_", "s", "k", "u", "_", "c", "l", "i", "e", "n", "t", "e">>, SalesQtyCands)
        date_col == named_or_found(sch, fatur_table, <<"d", "a", "t", "a">>, SalesDateCands)
        sku == IF has(prm, "sku") THEN prm.sku ELSE None
    IN IF fatur_table = NoName THEN Raised("ValueError: table", <<>>)
       ELSE RunOne(sch, db,
                   Statement("sku_best_month", fatur_table,
                             <<or_null(date_col), or_null(date_col), or_null(qty_col), or_null(sku_col)>>,
                             <<"sku">>, "sku" :> sku),
                   [kind |-> "best_month", sku |-> sku, found |-> db.row])

execute_sales_time_series(sch, db, prm) ==
    LET fatur_table == find_table(sch, SalesTableCands)
        sku_col == find_column(sch, fatur_table, SeriesSkuCands)
        qty_col == find_column(sch, fatur_table, SeriesQtyCands)
        date_col == find_column(sch, fatur_table, SalesDateCands)
        by_sku == has(prm, "sku") /\ prm.sku # <<>>
    IN IF fatur_table = NoName THEN Raised("ValueError: table", <<>>)
       ELSE RunOne(sch, db,
                   Statement("sales_time_series", fatur_table,
                             <<or_null(date_col), or_null(date_col), or_null(qty_col)>>
                             \* the sku column goes into the where clause unquoted
                             \o (IF by_sku THEN <<lower(fstr(sku_col))>> ELSE <<>>),
                             IF by_sku THEN <<"sku">> ELSE <<>>,
                             IF by_sku THEN "sku" :> prm.sku ELSE NoParams),
                   [kind |-> "time_series", rows |-> db.rows])

\* a start/end value carries a truthy entry under key k
entry(d, k) == k \in DOMAIN d /\ d[k] # 0

execute_sales_between_dates(sch, db, prm) ==
    LET fatur_table == find_table(sch, SalesTableCands)
        sku_col == named_or_found(sch, fatur_table, <<"S", "K", "U">>, SalesSkuCands)
        qty_col == named_or_found(sch, fatur_table, <<"g", "i", "r", "o", "_", "s", "k", "u", "_", "c", "l", "i", "e", "n", "t", "e">>, SalesQtyCands)
        date_col == named_or_found(sch, fatur_table, <<"d", "a", "t", "a">>, SalesDateCands)
        by_sku == has(prm, "sku") /\ prm.sku # <<>>
        both == has(prm, "start") /\ has(prm, "end")
        months == both /\ entry(prm.start, "month") /\ entry(prm.start, "year")
                       /\ entry(prm.end, "month") /\ entry(prm.end, "year")
        years == both /\ ~ months /\ entry(prm.start, "year") /\ entry(prm.end, "year")
        bind == (IF by_sku THEN "sku" :> prm.sku ELSE NoParams)
                @@ (IF months
                    THEN ("start_ym" :> [year |-> prm.start.year, month |-> prm.start.month])
                         @@ ("end_ym" :> [year |-> prm.end.year, month |-> prm.end.month])
                    ELSE IF years
                         THEN ("y1" :> prm.start.year) @@ ("y2" :> prm.end.year)
                         ELSE NoParams)
    IN IF fatur_table = NoName THEN Raised("ValueError: table", <<>>)
       ELSE IF qty_col = NoName \/ date_col = NoName THEN Raised("ValueError: column", <<>>)
       ELSE RunOne(sch, db,
                   Statement("sales_between_dates", fatur_table,
                             <<qty_col>> \o (IF by_sku THEN <<or_null(sku_col)>> ELSE <<>>)
                             \o (IF months THEN <<date_col, date_col>>
                                 ELSE IF years THEN <<date_col>> ELSE <<>>),
                             (IF by_sku THEN <<"sku">> ELSE <<>>)
                             \o (IF months THEN <<"between_ym">>
                                 ELSE IF years THEN <<"between_years">> ELSE <<>>),
                             bind),
                   [kind |-> "total", total |-> or0(db.scalar), filters |-> bind])

\* top_n_skus with the limit written into the text instead of bound as :n
execute_top_n_skus_inline_limit(sch, db, prm) ==
    LET fatur_table == find_table(sch, SalesTableCands)
        sku_col == named_or_found(sch, fatur_table, <<"S", "K", "U">>, SalesSkuCands)
        qty_col == named_or_found(sch, fatur_table, <<"g", "i", "r", "o", "_", "s", "k", "u", "_", "c", "l", "i", "e", "n", "t", "e">>, SalesQtyCands)
        n == IF has(prm, "n") THEN prm.n ELSE 10
    IN IF fatur_table = NoName THEN Raised("ValueError: table", <<>>)
       ELSE IF sku_col = NoName \/ qty_col = NoName THEN Raised("ValueError: column", <<>>)
       ELSE RunOne(sch, db,
                   Statement("top_n_skus", fatur_table, <<sku_col, qty_col, sku_col>>,
                             <<"limit " \o ToString(n)>>, NoParams),
                   [kind |-> "top", rows |-> IF db.rows <= n THEN db.rows ELSE n])

execute_top_n_skus(sch, db, prm) ==
    LET fatur_table == find_table(sch, SalesTableCands)
        sku_col == named_or_found(sch, fatur_table, <<"S", "K", "U">>, SalesSkuCands)
        qty_col == named_or_found(sch, fatur_table, <<"g", "i", "r", "o", "_", "s", "k", "u", "_", "c", "l", "i", "e", "n", "t", "e">>, SalesQtyCands)
        n == IF has(prm, "n") THEN prm.n ELSE 10
    IN IF fatur_table = NoName THEN Raised("ValueError: table", <<>>)
       ELSE IF sku_col = NoName \/ qty_col = NoName THEN Raised("ValueError: column", <<>>)
       ELSE RunOne(sch, db,
                   Statement("top_n_skus", fatur_table, <<sku_col, qty_col, sku_col>>, <<>>, "n" :> n),
                   [kind |-> "top", rows |-> IF db.rows <= n THEN db.rows ELSE n])

execute_stock_by_client(sch, db, prm) ==
    LET table == find_table(sch, StockTableCands)
        qty_col == named_or_found(sch, table, <<"e", "s", "_", "t", "o", "t", "a", "l", "e", "s", "t", "o", "q", "u", "e">>, StockQtyCands)
        client_col == find_column(sch, table, StockClientCands)
        by_client == has(prm, "client") /\ client_truthy(prm.client)
        bind == IF by_client THEN "client" :> prm.client ELSE NoParams
    IN IF table = NoName THEN Raised("ValueError: table", <<>>)
       ELSE IF qty_col = NoName THEN Raised("ValueError: column", <<>>)
       ELSE IF by_client /\ ~ int_parses(prm.client) THEN Raised("ValueError: int", <<>>)
       ELSE RunOne(sch, db,
                   Statement("stock_by_client", table,
                             <<qty_col>> \o (IF by_client THEN <<or_null(client_col)>> ELSE <<>>),
                             IF by_client THEN <<"client">> ELSE <<>>,
                             bind),
                   [kind |-> "total_stock_client", total_stock_client |-> or0(db.scalar),
                    filters |-> bind])

\* `30 if period == "next_month" else 365` with period = params.get("period",
\* "next_month"); a period that is a plain string s is the record [str |-> s],
\* a period that is a dict is the record of its entries
forecast_periods(prm) ==
    IF (IF has(prm, "period") THEN prm.period = [str |-> "next_month"] ELSE TRUE)
    THEN 30 ELSE 365

\* ForecastService.handle_forecast_intent.  db.data = 0: the series query
\* returns no row; 1: rows, but no SKU is fitted; 2: rows and a fit.
handle_forecast_intent(sch, db, i, prm) ==
    LET fatur_table == find_table(sch, SalesTableCands)
        sku_col == named_or_found(sch, fatur_table, <<"S", "K", "U">>, SalesSkuCands)
        qty_col == named_or_found(sch, fatur_table, <<"g", "i", "r", "o", "_", "s", "k", "u", "_", "c", "l", "i", "e", "n", "t", "e">>, SalesQtyCands)
        date_col == named_or_found(sch, fatur_table, <<"d", "a", "t", "a">>, SalesDateCands)
        st == Statement(i, fatur_table, <<date_col, sku_col, qty_col, date_col>>, <<"two_years">>, NoParams)
        periods == IF i = "predict_stockout" THEN 30 ELSE forecast_periods(prm)
        fitted(o) == [status |-> "ok", out |-> o, executed |-> <<st>>,
                      horizon |-> IF db.data = 2 THEN periods ELSE 0]
    IN IF i \notin {"predict_stockout", "predict_top_sales", "predict_sku_sales"}
       THEN Raised("ValueError: unsupported", <<>>)
       ELSE IF fatur_table = NoName THEN Raised("ValueError: table", <<>>)
       ELSE IF sku_col = NoName \/ qty_col = NoName \/ date_col = NoName
            THEN Raised("ValueError: column", <<>>)
       ELSE IF db_raises(sch, db, st) THEN Raised("DBError", <<st>>)
       ELSE IF db.data = 0 THEN Returned([kind |-> "error", error |-> "no history"], <<st>>)
       ELSE IF i = "predict_sku_sales"
            THEN IF ~ has(prm, "sku") THEN Returned([kind |-> "error", error |-> "invalid sku"], <<st>>)
                 ELSE fitted(IF db.data = 2
                             THEN [kind |-> "sku_prediction", sku |-> prm.sku, periods |-> periods]
                             ELSE [kind |-> "error", error |-> "insufficient data"])
            ELSE fitted([kind |-> "predictions", fitted |-> db.data = 2, periods |-> periods])

\* the intents SQLQueryBuilder.execute has a branch for
BuilderIntents == {"greeting", "farewell", "unknown_intent", "total_stock",
                   "distinct_products_count", "active_clients_count", "sku_sales_compare",
                   "sku_best_month", "sales_time_series", "sales_between_dates",
                   "top_n_skus", "stock_by_client",
                   "predict_stockout", "predict_top_sales", "predict_sku_sales"}

\* SQLQueryBuilder.execute
SQLQueryBuilder_execute(sch, db, i, prm) ==
    CASE i = "greeting" -> Returned([kind |-> "message", message |-> "greeting"], <<>>)
      [] i = "farewell" -> Returned([kind |-> "message", message |-> "farewell"], <<>>)
      [] i = "unknown_intent" ->
            Returned([kind |-> "error", error |-> "not understood",
                      original_text |-> IF has(prm, "original_text") THEN prm.original_text ELSE <<>>],
                     <<>>)
      [] i = "total_stock" -> execute_total_stock(sch, db)
      [] i = "distinct_products_count" -> execute_distinct_products_count(sch, db)
      [] i = "active_clients_count" -> execute_active_clients_count(sch, db)
      [] i = "sku_sales_compare" -> execute_sku_sales_compare(sch, db, prm)
      [] i = "sku_best_month" -> execute_sku_best_month(sch, db, prm)
      [] i = "sales_time_series" -> execute_sales_time_series(sch, db, prm)
      [] i = "sales_between_dates" -> execute_sales_between_dates(sch, db, prm)
      [] i = "top_n_skus" -> execute_top_n_skus(sch, db, prm)
      [] i = "stock_by_client" -> execute_stock_by_client(sch, db, prm)
      [] i \in {"predict_stockout", "predict_top_sales", "predict_sku_sales"} ->
            handle_forecast_intent(sch, db, i, prm)
      [] OTHER -> Raised("ValueError: unsupported", <<>>)

-----------------------------------------------------------------------------
(* ResponseGenerator *)

\* the keys of ResponseGenerator._response_handlers
ResponseHandlers == {"total_stock", "distinct_products_count", "active_clients_count",
                     "sku_sales_compare", "sku_best_month", "sales_time_series",
                     "sales_between_dates", "top_n_skus", "stock_by_client",
                     "predict_stockout", "predict_top_sales", "predict_sku_sales",
                     "greeting", "farewell", "unknown_intent"}

\* a reply: the template it was rendered from, the phrasing variant that
\* random picked, and the values put into the template
Reply(template, variant, args) == [template |-> template, variant |-> variant, args |-> args]

\* "proximo mes" if params.get("period") == "next_month" else "proximo ano"
period_name(prm) ==
    IF has(prm, "period") /\ prm.period = [str |-> "next_month"]
    THEN "proximo mes" ELSE "proximo ano"

\* the relation a comparison reply states between its two totals
larger(a, b) == IF a > b THEN "first larger" ELSE IF b > a THEN "second larger" ELSE "equal"
\* the totals a comparison reply prints, in the order it prints them
compared(a, b) == IF a > b THEN <<a, b>> ELSE IF b > a THEN <<b, a>> ELSE <<a>>

\* the handler registered for intent i, applied to (params, result); rnd is
\* the draw of the random module
format(i, prm, o, rnd) ==
    CASE i = "greeting" -> Reply("greeting", (rnd % 4) + 1, <<>>)
      [] i = "farewell" -> Reply("farewell", (rnd % 4) + 1, <<>>)
      [] i = "unknown_intent" ->
            Reply("not understood", (rnd % 3) + 1,
                  <<IF has(prm, "original_text") THEN prm.original_text ELSE <<>> >>)
      [] i = "total_stock" ->
            IF o.kind = "total_stock" THEN Reply("total stock", 1, <<o.total_stock>>)
            ELSE Reply("no stock data", 1, <<>>)
      [] i = "distinct_products_count" ->
            IF o.kind = "distinct_products" THEN Reply("distinct products", 1, <<o.distinct_products>>)
            ELSE Reply("cannot count products", 1, <<>>)
      [] i = "active_clients_count" ->
            IF o.kind = "active_clients"
            THEN Reply(IF o.note THEN "active clients with note" ELSE "active clients", 1, <<o.active_clients>>)
            ELSE Reply("cannot count clients", 1, <<>>)
      [] i = "sku_sales_compare" ->
            IF o.kind = "compare_periods"
            THEN Reply("periods: " \o larger(o.period1, o.period2), (rnd % 2) + 1,
                       compared(o.period1, o.period2))
            ELSE IF o.kind = "compare_years"
                 THEN Reply("years: " \o larger(o.year1, o.year2), (rnd % 2) + 1,
                            compared(o.year1, o.year2))
                 ELSE Reply("no comparative data", (rnd % 2) + 1, <<>>)
      [] i = "sku_best_month" ->
            IF o.kind = "best_month" /\ o.found THEN Reply("best month", 1, <<o.sku>>)
            ELSE Reply("no sales for sku", 1, <<>>)
      [] i = "sales_time_series" ->
            IF o.kind = "time_series" /\ o.rows > 0 THEN Reply("time series", 1, <<o.rows>>)
            ELSE Reply("no time series", 1, <<>>)
      [] i = "sales_between_dates" ->
            IF o.kind = "total" THEN Reply("total between dates", 1, <<o.total>>)
            ELSE Reply("no sales in period", 1, <<>>)
      [] i = "top_n_skus" ->
            IF o.kind = "top" /\ o.rows > 0 THEN Reply("top skus", 1, <<o.rows>>)
            ELSE Reply("no top skus", 1, <<>>)
      [] i = "stock_by_client" ->
            IF o.kind = "total_stock_client"
            THEN Reply(IF has(o.filters, "client") THEN "stock of client" ELSE "stock of all clients",
                       1, <<o.total_stock_client>>)
            ELSE Reply("cannot compute stock", 1, <<>>)
      [] i = "predict_stockout" ->
            IF o.kind = "error" THEN Reply("error: " \o o.error, 1, <<>>)
            ELSE IF o.kind = "predictions" /\ o.fitted THEN Reply("stockout risks", 1, <<>>)
                 ELSE Reply("no stockout risk", 1, <<>>)
      [] i = "predict_top_sales" ->
            IF o.kind = "error" THEN Reply("error: " \o o.error, 1, <<>>)
            ELSE IF o.kind = "predictions" /\ o.fitted
                 THEN Reply("top sales forecast", 1, <<period_name(prm)>>)
                 ELSE Reply("no forecast", 1, <<>>)
      [] i = "predict_sku_sales" ->
            IF o.kind = "error" THEN Reply("error: " \o o.error, 1, <<>>)
            ELSE Reply("sku forecast", 1, <<period_name(prm)>>)

\* The result handed to a handler is a record tagged with its kind: "none"
\* is None, "number" an int, "list" a list whose items are not dicts,
\* "time_series" and "top" the lists of rows the builder returns, "dict" the
\* empty dict, and every other kind a dict with the keys of result_keys.
IsDict(o) == o.kind \notin {"none", "number", "list", "time_series", "top"}
result_keys(o) ==
    CASE o.kind = "total_stock" -> {"total_stock"}
      [] o.kind = "distinct_products" -> {"distinct_products"}
      [] o.kind = "active_clients" -> {"active_clients"}
      [] o.kind = "compare_periods" -> {"sku", "period1", "period2"}
      [] o.kind = "compare_years" -> {"sku", "year1", "year2"}
      [] o.kind = "best_month" -> {"sku", "best_month"}
      [] o.kind = "total" -> {"total", "filters"}
      [] o.kind = "total_stock_client" -> {"total_stock_client", "filters"}
      [] o.kind = "error" -> {"error"}
      [] o.kind = "message" -> {"message"}
      [] o.kind = "predictions" -> {"predictions"}
      [] o.kind = "sku_prediction" ->
            {"sku", "predicted_sales", "current_avg", "growth_rate", "confidence_interval"}
      [] OTHER -> {}
\* bool(result)
truthy(o) ==
    CASE o.kind \in {"none", "dict"} -> FALSE
      [] o.kind = "number" -> o.v # 0
      [] o.kind \in {"list", "time_series", "top"} -> o.rows > 0
      [] OTHER -> TRUE

\* the handler of intent i raises on (params, result): `"k" in result` on a
\* value that is no container, result.get on a value that is no dict, a
\* subscript of a row or of a dict that lacks the key
handler_raises(i, prm, o) ==
    CASE i = "sku_sales_compare" -> o.kind \in {"none", "number"}
      [] i = "sku_best_month" -> ~ IsDict(o)
      [] i = "sales_time_series" -> o.kind = "list" /\ o.rows > 0
      [] i = "top_n_skus" -> truthy(o) /\ o.kind # "top"
      [] i \in {"predict_stockout", "predict_top_sales"} -> ~ IsDict(o)
      [] i = "predict_sku_sales" ->
            \/ ~ IsDict(o)
            \/ /\ "error" \notin result_keys(o)
               /\ ~ ({"sku", "predicted_sales", "current_avg", "growth_rate"} \subseteq result_keys(o))
      [] OTHER -> FALSE

\* what stands for an exception leaving a handler
HandlerRaised == Reply("raised", 0, <<>>)
\* the fixed apology of ResponseGenerator.execute
FormatApology == Reply("cannot formulate", 1, <<>>)

\* handler(params, result)
handler(i, prm, o, rnd) ==
    IF handler_raises(i, prm, o) THEN HandlerRaised ELSE format(i, prm, o, rnd)

\* execute without the try around the handler: the exception leaves execute
ResponseGenerator_execute_no_try(i, prm, o, rnd) ==
    IF i \notin ResponseHandlers THEN Reply("no specific format", 1, <<i, o>>)
    ELSE handler(i, prm, o, rnd)

\* ResponseGenerator.execute
ResponseGenerator_execute(i, prm, o, rnd) ==
    IF i \notin ResponseHandlers THEN Reply("no specific format", 1, <<i, o>>)
    ELSE LET r == handler(i, prm, o, rnd)
         IN IF r.template = "raised" THEN FormatApology ELSE r

-----------------------------------------------------------------------------
(* ForecastService: _clean_outliers and the three predictions.            *)
(* A frame is a sequence of groups [sku, rows] in the order of groupby    *)
(* (sorted by sku); a row is [ds, y] with ds a day number.  Means are     *)
(* kept as pairs <<sum, count>> and compared by cross-multiplication.     *)

RECURSIVE sorted_insert(_, _)
sorted_insert(s, x) ==
    IF s = <<>> THEN <<x>>
    ELSE IF x < Head(s) THEN <<x>> \o s
         ELSE <<Head(s)>> \o sorted_insert(Tail(s), x)
\* the values of s in ascending order
RECURSIVE sort_values(_)
sort_values(s) ==
    IF s = <<>> THEN <<>>
    ELSE sorted_insert(sort_values(SubSeq(s, 1, Len(s) - 1)), s[Len(s)])

RECURSIVE sum_y(_)
sum_y(df) == IF df = <<>> THEN 0 ELSE Head(df).y + sum_y(Tail(df))

\* four times Series.quantile(k/4) of the sorted values v (linear interpolation)
quantile4(v, k) ==
    LET pos4 == k * (Len(v) - 1)
        lo == pos4 \div 4
        fr == pos4 % 4
    IN IF fr = 0 THEN 4 * v[lo + 1]
       ELSE 4 * v[lo + 1] + fr * (v[lo + 2] - v[lo + 1])

\* clip(lower=0)
clip(df) == [i \in DOMAIN df |-> [df[i] EXCEPT !.y = IF @ < 0 THEN 0 ELSE @]]

\* ForecastService._clean_outliers
clean_outliers(df) ==
    LET c == clip(df)
    IN IF c = <<>> THEN c
       ELSE LET v == sort_values([i \in DOMAIN c |-> c[i].y])
                Q1 == quantile4(v, 1)
                Q3 == quantile4(v, 3)
                IQR == Q3 - Q1
                keep(r) == 8 * r.y >= 2 * Q1 - 3 * IQR /\ 8 * r.y <= 2 * Q3 + 3 * IQR
            IN SelectSeq(c, keep)

\* The frame run_prophet returns for a series of n rows and a horizon h has
\* n + h rows: the dates of the series, then h days.  The model's answer o
\* predicts o.b on the last o.k rows and o.a on the rows before them.
forecast_frame(o, n, h) == [a |-> o.a, b |-> o.b, k |-> o.k, len |-> n + h]
\* forecast.tail(m)["yhat"]: its number of rows, its sum and its minimum
tail_count(f, m) == IF m < f.len THEN m ELSE f.len
tail_sum(f, m) ==
    LET c == tail_count(f, m)
    IN IF c <= f.k THEN c * f.b ELSE f.k * f.b + (c - f.k) * f.a
tail_min(f, m) ==
    IF tail_count(f, m) <= f.k THEN f.b ELSE IF f.a < f.b THEN f.a ELSE f.b
\* forecast["yhat"].idxmin(): the first row holding the minimum
idxmin(f) == IF f.len > f.k /\ f.a <= f.b THEN 1 ELSE f.len - f.k + 1
\* forecast.loc[i, "ds"]
ds_at(df, i) == IF i <= Len(df) THEN df[i].ds ELSE df[Len(df)].ds + (i - Len(df))

\* the quotient taken whatever current_avg is: a denominator of 0 is the
\* division by zero
growth_rate_unguarded(fs, fc, hs, hn) == <<100 * (fs * hn - hs * fc), hs * fc>>
\* (avg_forecast / current_avg - 1) * 100, or 0.0 when current_avg == 0
growth_rate(fs, fc, hs, hn) ==
    IF hs = 0 THEN <<0, 1>> ELSE <<100 * (fs * hn - hs * fc), hs * fc>>

\* what the loops carry: the entries collected and the calls of run_prophet
NoPredictions == [results |-> <<>>, fits |-> <<>>]
run_prophet_call(sku, df, h) == [sku |-> sku, rows |-> df, horizon |-> h]

\* last_values.min() <= 0 or last_values.mean() < sku_df["y"].mean() * 0.2
stockout_flagged(f, sku_df) ==
    \/ tail_min(f, 7) <= 0
    \/ 5 * Len(sku_df) * tail_sum(f, 7) < tail_count(f, 7) * sum_y(sku_df)

\* one turn of the loop of _predict_stockout, for the group g when the model
\* answers o for its SKU
stockout_turn(acc, g, o) ==
    IF o.kind = "clean raises" THEN acc
    ELSE LET sku_df == clean_outliers(g.rows)
         IN IF Len(sku_df) < 2 THEN acc
            ELSE LET called == [acc EXCEPT !.fits = Append(@, run_prophet_call(g.sku, sku_df, 30))]
                     f == forecast_frame(o, Len(sku_df), 30)
                 IN IF o.kind = "prophet raises" THEN called
                    ELSE IF stockout_flagged(f, sku_df)
                         THEN [called EXCEPT !.results =
                                  Append(@, [sku |-> g.sku,
                                             predicted_stockout |-> ds_at(sku_df, idxmin(f)),
                                             current_avg |-> <<sum_y(sku_df), Len(sku_df)>>,
                                             predicted_avg |-> <<tail_sum(f, 7), tail_count(f, 7)>>])]
                         ELSE called

\* the loop with the try around it instead of inside it: the first exception
\* ends the loop
RECURSIVE stockout_loop_aborting(_, _, _, _)
stockout_loop_aborting(df, fc, i, acc) ==
    IF i > Len(df) THEN acc
    ELSE IF fc[df[i].sku].kind \in {"clean raises", "prophet raises"}
         THEN stockout_turn(acc, df[i], fc[df[i].sku])
         ELSE stockout_loop_aborting(df, fc, i + 1, stockout_turn(acc, df[i], fc[df[i].sku]))

RECURSIVE stockout_loop(_, _, _, _)
stockout_loop(df, fc, i, acc) ==
    IF i > Len(df) THEN acc
    ELSE stockout_loop(df, fc, i + 1, stockout_turn(acc, df[i], fc[df[i].sku]))

\* results.sort(key=lambda x: x["predicted_stockout"]): stable, ascending
RECURSIVE insert_by_date(_, _)
insert_by_date(s, x) ==
    IF s = <<>> THEN <<x>>
    ELSE IF x.predicted_stockout < Head(s).predicted_stockout THEN <<x>> \o s
         ELSE <<Head(s)>> \o insert_by_date(Tail(s), x)
RECURSIVE sort_by_date(_)
sort_by_date(s) ==
    IF s = <<>> THEN <<>>
    ELSE insert_by_date(sort_by_date(SubSeq(s, 1, Len(s) - 1)), s[Len(s)])

\* ForecastService._predict_stockout
predict_stockout(df, fc) ==
    LET r == stockout_loop(df, fc, 1, NoPredictions)
    IN [out |-> [kind |-> "predictions", predictions |-> sort_by_date(r.results)],
        fits |-> r.fits]

\* the loop of _predict_top_sales accepting a series of one point
top_sales_turn_single_point(acc, g, o, periods) ==
    IF o.kind = "clean raises" THEN acc
    ELSE LET sku_df == clean_outliers(g.rows)
         IN IF Len(sku_df) < 1 THEN acc
            ELSE LET called == [acc EXCEPT !.fits = Append(@, run_prophet_call(g.sku, sku_df, periods))]
                     f == forecast_frame(o, Len(sku_df), periods)
                 IN IF o.kind = "prophet raises" THEN called
                    ELSE [called EXCEPT !.results =
                             Append(@, [sku |-> g.sku,
                                        predicted_sales |-> <<tail_sum(f, periods), tail_count(f, periods)>>,
                                        current_avg |-> <<sum_y(sku_df), Len(sku_df)>>,
                                        growth_rate |-> growth_rate(tail_sum(f, periods), tail_count(f, periods),
                                                                    sum_y(sku_df), Len(sku_df))])]

\* one turn of the loop of _predict_top_sales
top_sales_turn(acc, g, o, periods) ==
    IF o.kind = "clean raises" THEN acc
    ELSE LET sku_df == clean_outliers(g.rows)
         IN IF Len(sku_df) < 2 THEN acc
            ELSE LET called == [acc EXCEPT !.fits = Append(@, run_prophet_call(g.sku, sku_df, periods))]
                     f == forecast_frame(o, Len(sku_df), periods)
                 IN IF o.kind = "prophet raises" THEN called
                    ELSE [called EXCEPT !.results =
                             Append(@, [sku |-> g.sku,
                                        predicted_sales |-> <<tail_sum(f, periods), tail_count(f, periods)>>,
                                        current_avg |-> <<sum_y(sku_df), Len(sku_df)>>,
                                        growth_rate |-> growth_rate(tail_sum(f, periods), tail_count(f, periods),
                                                                    sum_y(sku_df), Len(sku_df))])]

RECURSIVE top_sales_loop(_, _, _, _, _)
top_sales_loop(df, fc, periods, i, acc) ==
    IF i > Len(df) THEN acc
    ELSE top_sales_loop(df, fc, periods, i + 1, top_sales_turn(acc, df[i], fc[df[i].sku], periods))

\* results.sort(key=lambda x: x["predicted_sales"], reverse=True): stable,
\* descending
RECURSIVE insert_by_sales(_, _)
insert_by_sales(s, x) ==
    IF s = <<>> THEN <<x>>
    ELSE IF x.predicted_sales[1] * Head(s).predicted_sales[2]
              > Head(s).predicted_sales[1] * x.predicted_sales[2]
         THEN <<x>> \o s
         ELSE <<Head(s)>> \o insert_by_sales(Tail(s), x)
RECURSIVE sort_by_sales(_)
sort_by_sales(s) ==
    IF s = <<>> THEN <<>>
    ELSE insert_by_sales(sort_by_sales(SubSeq(s, 1, Len(s) - 1)), s[Len(s)])

\* ForecastService._predict_top_sales
predict_top_sales(df, fc, periods) ==
    LET r == top_sales_loop(df, fc, periods, 1, NoPredictions)
        sorted == sort_by_sales(r.results)
    IN [out |-> [kind |-> "predictions",
                 predictions |-> SubSeq(sorted, 1, IF Len(sorted) < 5 THEN Len(sorted) ELSE 5)],
        fits |-> r.fits]

\* df[df["sku"].str.upper() == sku]
RECURSIVE rows_of_sku(_, _)
rows_of_sku(df, sku) ==
    IF df = <<>> THEN <<>>
    ELSE (IF upper(Head(df).sku) = sku THEN Head(df).rows ELSE <<>>) \o rows_of_sku(Tail(df), sku)

\* ForecastService._predict_sku_sales; o is the model's answer for this SKU
predict_sku_sales(df, o, sku, periods) ==
    LET rows == rows_of_sku(df, sku)
        sku_df == clean_outliers(rows)
        f == forecast_frame(o, Len(sku_df), periods)
        failed(msg, made) == [out |-> [kind |-> "error", error |-> msg], fits |-> made]
    IN IF rows = <<>> THEN failed("no history for sku", <<>>)
       ELSE IF o.kind = "clean raises" THEN failed("exception", <<>>)
       ELSE IF Len(sku_df) < 2 THEN failed("insufficient data", <<>>)
       ELSE IF o.kind = "prophet raises"
            THEN failed("exception", <<run_prophet_call(sku, sku_df, periods)>>)
            ELSE [out |-> [kind |-> "sku_prediction", sku |-> sku,
                           predicted_sales |-> <<tail_sum(f, periods), tail_count(f, periods)>>,
                           current_avg |-> <<sum_y(sku_df), Len(sku_df)>>,
                           growth_rate |-> growth_rate(tail_sum(f, periods), tail_count(f, periods),
                                                       sum_y(sku_df), Len(sku_df))],
                  fits |-> <<run_prophet_call(sku, sku_df, periods)>>]

\* handle_forecast_intent from the frame it has read: the empty frame, then
\* the dispatch on the intent.  fc gives the model's answer per SKU.
predict(i, prm, df, fc) ==
    IF df = <<>> THEN [out |-> [kind |-> "error", error |-> "no history"], fits |-> <<>>]
    ELSE IF i = "predict_stockout" THEN predict_stockout(df, fc)
    ELSE IF i = "predict_top_sales" THEN predict_top_sales(df, fc, forecast_periods(prm))
    ELSE IF ~ has(prm, "sku") THEN [out |-> [kind |-> "error", error |-> "invalid sku"], fits |-> <<>>]
    ELSE LET own == {k \in DOMAIN df : upper(df[k].sku) = prm.sku}
             o == IF own = {} THEN [kind |-> "prophet raises"] ELSE fc[df[Min(own)].sku]
         IN predict_sku_sales(df, o, prm.sku, forecast_periods(prm))

-----------------------------------------------------------------------------
(* prophet_cache and ProphetForecast.run_prophet.                          *)
(* A frame is a sequence of rows [ds, y].  A file of the cache is absent   *)
(* (not in the domain), partial (opened for writing, not yet dumped) or    *)
(* complete.                                                               *)

\* rows in the order of sort_values over all the columns (ds, then y)
row_before(r, q) == r.ds < q.ds \/ (r.ds = q.ds /\ r.y < q.y)
RECURSIVE insert_row(_, _)
insert_row(s, r) ==
    IF s = <<>> THEN <<r>>
    ELSE IF row_before(r, Head(s)) THEN <<r>> \o s
         ELSE <<Head(s)>> \o insert_row(Tail(s), r)
RECURSIVE sort_rows(_)
sort_rows(df) ==
    IF df = <<>> THEN <<>>
    ELSE insert_row(sort_rows(SubSeq(df, 1, Len(df) - 1)), df[Len(df)])

\* a digest taken over the rows as they come, without sorting them
hash_dataframe_unsorted(df) == [sha256 |-> df]

\* prophet_cache.hash_dataframe: the digest of the CSV text of the sorted
\* frame; the sorted rows stand for the digest (two frames have the same
\* digest exactly when their CSV texts are equal)
hash_dataframe(df) == [sha256 |-> sort_rows(df)]
NoHash == [sha256 |-> <<>>]

\* str.isalnum
isalnum(c) == IsAlpha(c) \/ IsDigit(c) \/ (c \in AccentedSet /\ c # "EUR")
\* "".join(c for c in sku if c.isalnum() or c in "_-")
safe_sku(sku) ==
    LET kept(c) == isalnum(c) \/ c \in {"_", "-"}
    IN SelectSeq(sku, kept)
\* the file names: the digest has a fixed length and neither it nor the
\* horizon holds a "_", so a name is given by its parts
get_model_path(sku, data_hash) == <<safe_sku(sku), data_hash>>

\* a forecast file named without the horizon
get_forecast_path_no_horizon(sku, data_hash, h) == <<safe_sku(sku), data_hash>>
get_forecast_path(sku, data_hash, h) == <<safe_sku(sku), data_hash, h>>

\* a fitted model and a forecast; draw tells apart two runs of predict, whose
\* uncertainty intervals are sampled
NoModel == [trained_on |-> <<>>]
NoForecast == [model |-> NoModel, horizon |-> 0, draw |-> 0]
Draws == {1, 2}
\* train_prophet_model(df)
train_prophet_model(df) == [trained_on |-> sort_rows(df)]
\* model.predict(model.make_future_dataframe(periods=horizon))
model_predict(model, h, draw) == [model |-> model, horizon |-> h, draw |-> draw]

NoKey == <<>>
EmptyCache == [models |-> <<>>, forecasts |-> <<>>]
\* open(path, "wb"): the file exists and is empty; key is the key the writer
\* was called with, writes counts the times the file was opened for writing
opened(files, path, key, blank) ==
    (path :> [state |-> "partial", content |-> blank, key |-> key,
              writes |-> IF path \in DOMAIN files THEN files[path].writes + 1 ELSE 1])
    @@ files
\* pickle.dump / joblib.dump into the opened file
dumped(files, path, content) ==
    (path :> [files[path] EXCEPT !.state = "complete", !.content = content]) @@ files

\* a thread that is not inside run_prophet
IdleCall == [pc |-> "idle", sku |-> <<>>, df |-> <<>>, horizon |-> 0, df_hash |-> NoHash,
             model |-> NoModel, forecast |-> NoForecast, fitted |-> FALSE, predicted |-> FALSE,
             model_from |-> NoKey, forecast_from |-> NoKey]

-----------------------------------------------------------------------------
(* Entity extraction on its own: extract_entities applied to bounded texts *)

MaxPieces == 4

\* texts made of at most n pieces of P
TextsOver(P, n) == {Cat(ps) : ps \in UNION {[1..k -> P] : k \in 1..n}}

SkuPieces == { <<"s", "k", "u">>,
               <<"s", "K", "u">>,
               <<"s", "k", "u'">>,
               <<"_">>,
               <<"-">>,
               <<" ">>,
               <<"1", "2">>,
               <<"7", " ">>,
               <<"x">> }
ClientPieces == { <<"c", "l", "i", "e", "n", "t", "e">>,
                  <<"c", "l", "i", "e", "n", "t">>,
                  <<" ">>,
                  <<":">>,
                  <<"1", "2">>,
                  <<"7">>,
                  <<"1", "2", "3", "4", "5", "6", "7">>,
                  <<"t", "e", "m">> }
EntityTexts == TextsOver(SkuPieces, MaxPieces) \cup TextsOver(ClientPieces, MaxPieces)

NoEntities == [sku |-> None, months |-> <<>>, years |-> <<>>, n |-> -1, client |-> NoClient]
NoResult == [kind |-> "none"]
FreshGlobals == [parser |-> FALSE, model |-> FALSE, examples |-> FALSE]

\* the parts of the state an operation under study does not touch
ClassifierIdle == /\ use_embeddings = FALSE /\ embedding_model = FALSE /\ nlp = FALSE
                  /\ intent = "" /\ params = NoParams /\ best_score = 0
                  /\ globals = FreshGlobals
BuilderIdle == /\ schema = <<>> /\ out = NoResult /\ executed = <<>> /\ horizon = 0
\* no reply built yet
NoReply == [template |-> "", variant |-> 0, args |-> <<>>]
ChatIdle == reply = NoReply /\ outcome = ""
DbIdle == sales = <<>> /\ history = <<>> /\ chat_history = <<>>
ProphetIdle == /\ prophet = <<>> /\ fits = <<>> /\ calls = <<>> /\ cache = <<>>
               /\ pool = {} /\ started = 0 /\ returned = {}

InitEntities == /\ text \in EntityTexts
                /\ entities = NoEntities
                /\ pc = "text"
                /\ ClassifierIdle /\ BuilderIdle /\ ChatIdle /\ DbIdle /\ ProphetIdle

\* a call of extract_entities(text)
ExtractEntities ==
    /\ pc = "text"
    /\ entities' = extract_entities(text)
    /\ pc' = "extracted"
    /\ UNCHANGED <<db_vars, prophet_vars>>
    /\ UNCHANGED <<text, use_embeddings, embedding_model, nlp, intent, params,
                   best_score, globals, schema, out, executed, horizon, reply, outcome>>

NextEntities == ExtractEntities
SpecEntities == InitEntities /\ [][NextEntities]_vars

-----------------------------------------------------------------------------
(* The classifier on its own: construction, then execute(text) *)

MaxWords == 2
MaxEnts == 1

ClassifierPieces == { <<"o", "i">>,
                      <<"t", "c", "h", "a", "u">>,
                      <<" ", "v", "e", "n", "d", "a", "s">>,
                      <<" ", "s", "k", "u", "_", "1", "2">>,
                      <<" ", "s", "K", "u", " ", "7">> }
ClassifierTexts == TextsOver(ClassifierPieces, MaxWords)

\* the similarity vectors the embedding model may give: one key stands out
\* with score hi over the others at lo, or all keys tie
Scores == {10, 34, 35}
SimsChoices == {[k \in Range(INTENT_EXAMPLES_keys) |-> IF k = k1 THEN hi ELSE 10] :
                   k1 \in Range(INTENT_EXAMPLES_keys), hi \in Scores}

\* the blank-separated words of a text, as [from, to] spans
WordSpans(t) == {sp \in (1..Len(t)) \X (1..Len(t)) :
                   /\ sp[1] <= sp[2]
                   /\ \A j \in sp[1]..sp[2] : ~ IsSpace(t[j])
                   /\ sp[1] = 1 \/ IsSpace(t[sp[1] - 1])
                   /\ sp[2] = Len(t) \/ IsSpace(t[sp[2] + 1])}
NerLabels == {"PRODUCT", "LOC"}
\* what the parser may do on a text: throw, or tag up to MaxEnts of its
\* words, in text order
NerChoices(t) ==
    {[raises |-> TRUE, ents |-> <<>>]} \cup
    {[raises |-> FALSE, ents |-> [j \in 1..Len(sps) |-> [label |-> ls[j], text |-> SubSeq(t, sps[j][1], sps[j][2])]]] :
        sps \in {q \in UNION {[1..k -> WordSpans(t)] : k \in 0..MaxEnts} :
                    \A j \in 1..(Len(q) - 1) : q[j][2] < q[j + 1][1]},
        ls \in [1..MaxEnts -> NerLabels]}

InitClassifier == /\ text \in ClassifierTexts
                  /\ globals \in {FreshGlobals, [parser |-> FALSE, model |-> TRUE, examples |-> TRUE]}
                  /\ use_embeddings = FALSE /\ embedding_model = FALSE /\ nlp = FALSE
                  /\ intent = "" /\ params = NoParams /\ best_score = 0
                  /\ entities = NoEntities
                  /\ pc = "new"
                  /\ BuilderIdle /\ ChatIdle /\ DbIdle /\ ProphetIdle

\* RuleIntentClassifier(use_embeddings, allow_model_download)
Construct ==
    /\ pc = "new"
    /\ \E use_arg, allow, import_ok, cached, load_ok, encode_ok, spacy_ok \in BOOLEAN :
          LET c == RuleIntentClassifier_init(globals, use_arg, allow, import_ok, cached,
                                             load_ok, encode_ok, spacy_ok)
          IN /\ use_embeddings' = c.use_embeddings
             /\ embedding_model' = c.embedding_model
             /\ nlp' = c.nlp
             /\ globals' = c.globals
    /\ pc' = "constructed"
    /\ UNCHANGED <<db_vars, prophet_vars>>
    /\ UNCHANGED <<text, entities, intent, params, best_score, schema, out, executed,
                   horizon, reply, outcome>>

\* classifier.execute(text)
Execute ==
    /\ pc = "constructed"
    /\ \E e0 \in {extract_entities(text)} :
       \E sims \in SimsChoices, embed_ok \in BOOLEAN, ner \in NerChoices(text) :
          LET r == execute_from(
                      [use_embeddings |-> use_embeddings, embedding_model |-> embedding_model,
                       nlp |-> nlp], text, e0, sims, embed_ok, ner)
          IN /\ intent' = r.intent
             /\ params' = r.params
             /\ best_score' = r.best_score
             /\ outcome' = IF r.raised THEN "raised" ELSE "returned"
    /\ pc' = "classified"
    /\ UNCHANGED <<db_vars, prophet_vars>>
    /\ UNCHANGED <<text, entities, use_embeddings, embedding_model, nlp, globals, schema,
                   out, executed, horizon, reply>>

NextClassifier == Construct \/ Execute
SpecClassifier == InitClassifier /\ [][NextClassifier]_vars

-----------------------------------------------------------------------------
(* The query builder on its own: execute(intent, params) on sample schemas *)

MaxTotal == 2

\* the tables of the deployment
ProductionSchema ==
  << [name |-> <<"e", "s", "t", "o", "q", "u", "e">>,
       columns |-> << [name |-> <<"s", "k", "u">>, type |-> <<"V", "A", "R", "C", "H", "A", "R">>],
                     [name |-> <<"e", "s", "_", "t", "o", "t", "a", "l", "e", "s", "t", "o", "q", "u", "e">>, type |-> <<"I", "N", "T", "E", "G", "E", "R">>],
                     [name |-> <<"c", "o", "d", "_", "c", "l", "i", "e", "n", "t", "e">>, type |-> <<"I", "N", "T", "E", "G", "E", "R">>] >>],
     [name |-> <<"f", "a", "t", "u", "r", "a", "m", "e", "n", "t", "o">>,
       columns |-> << [name |-> <<"S", "K", "U">>, type |-> <<"V", "A", "R", "C", "H", "A", "R">>],
                     [name |-> <<"g", "i", "r", "o", "_", "s", "k", "u", "_", "c", "l", "i", "e", "n", "t", "e">>, type |-> <<"N", "U", "M", "E", "R", "I", "C">>],
                     [name |-> <<"d", "a", "t", "a">>, type |-> <<"D", "A", "T", "E">>] >>],
     [name |-> <<"c", "l", "i", "e", "n", "t", "e", "s">>,
       columns |-> << [name |-> <<"i", "d">>, type |-> <<"I", "N", "T", "E", "G", "E", "R">>],
                     [name |-> <<"a", "t", "i", "v", "o">>, type |-> <<"B", "O", "O", "L", "E", "A", "N">>] >>] >>
\* a database whose tables and columns carry other names
RenamedSchema ==
  << [name |-> <<"i", "n", "v", "e", "n", "t", "o", "r", "y">>,
       columns |-> << [name |-> <<"p", "r", "o", "d", "u", "t", "o", "_", "i", "d">>, type |-> <<"V", "A", "R", "C", "H", "A", "R">>],
                     [name |-> <<"q", "t", "d">>, type |-> <<"I", "N", "T", "E", "G", "E", "R">>] >>],
     [name |-> <<"s", "a", "l", "e", "s">>,
       columns |-> << [name |-> <<"c", "o", "d", "_", "p", "r", "o", "d", "u", "t", "o">>, type |-> <<"V", "A", "R", "C", "H", "A", "R">>],
                     [name |-> <<"v", "a", "l", "o", "r">>, type |-> <<"N", "U", "M", "E", "R", "I", "C">>],
                     [name |-> <<"d", "a", "t", "e", "_", "s", "a", "l", "e">>, type |-> <<"D", "A", "T", "E">>] >>],
     [name |-> <<"c", "u", "s", "t", "o", "m", "e", "r", "s">>,
       columns |-> << [name |-> <<"n", "o", "m", "e">>, type |-> <<"V", "A", "R", "C", "H", "A", "R">>],
                     [name |-> <<"s", "t", "a", "t", "u", "s">>, type |-> <<"V", "A", "R", "C", "H", "A", "R">>] >>] >>
\* a database whose tables lack the date, client and status columns
SparseSchema ==
  << [name |-> <<"e", "s", "t", "o", "q", "u", "e">>,
       columns |-> << [name |-> <<"s", "a", "l", "d", "o">>, type |-> <<"I", "N", "T", "E", "G", "E", "R">>] >>],
     [name |-> <<"f", "a", "t", "u", "r", "a", "m", "e", "n", "t", "o">>,
       columns |-> << [name |-> <<"s", "k", "u">>, type |-> <<"V", "A", "R", "C", "H", "A", "R">>],
                     [name |-> <<"v", "a", "l", "o", "r">>, type |-> <<"N", "U", "M", "E", "R", "I", "C">>] >>],
     [name |-> <<"c", "l", "i", "e", "n", "t", "e", "s">>,
       columns |-> << [name |-> <<"n", "o", "m", "e">>, type |-> <<"V", "A", "R", "C", "H", "A", "R">>] >>] >>
\* a database with a sales table none of whose columns is recognised
BareSchema ==
  << [name |-> <<"v", "e", "n", "d", "a", "s">>,
       columns |-> << [name |-> <<"r", "e", "f">>, type |-> <<"D", "A", "T", "E">>] >>] >>
Schemas == {ProductionSchema, RenamedSchema, SparseSchema, BareSchema}

\* what the connection may answer: a failure, or the values the statements
\* of one call read.  scalar and scalar2 are the first and second aggregate
\* (a NULL is -1); a call reads either scalars or rows, so one number serves
\* for both: rows is the number of rows of a result set, row says there is a
\* first row, data grades the history read for a forecast (0: no row, 1:
\* rows but no series long enough to fit, 2: a fit).
DbAnswer(s1, s2) ==
    [fails |-> FALSE, scalar |-> s1, scalar2 |-> s2, row |-> s1 > 0,
     rows |-> IF s1 < 0 THEN 0 ELSE s1, data |-> IF s1 < 0 THEN 0 ELSE IF s1 > 2 THEN 2 ELSE s1]
DbChoices ==
    {[fails |-> TRUE, scalar |-> 0, scalar2 |-> 0, row |-> FALSE, rows |-> 0, data |-> 0]} \cup
    {DbAnswer(s1, s2) : s1 \in -1..MaxTotal, s2 \in {0, MaxTotal}}

\* entities as extract_entities and the parser may leave them
SampleEntities ==
    LET sku12 == <<"S", "K", "U", "_", "1", "2">>
        m(a, y) == [month |-> a, year |-> y]
    IN { NoEntities,
         [NoEntities EXCEPT !.sku = sku12],
         [NoEntities EXCEPT !.sku = sku12, !.years = <<2023, 2024>>],
         [NoEntities EXCEPT !.sku = sku12, !.years = <<2024>>],
         [NoEntities EXCEPT !.sku = sku12, !.months = <<m(1, 2024), m(3, 2024)>>, !.years = <<2024, 2024>>],
         [NoEntities EXCEPT !.months = <<m(3, 2024)>>, !.years = <<2024>>],
         [NoEntities EXCEPT !.years = <<2025>>],
         [NoEntities EXCEPT !.sku = <<"A", "B", "-", "9">>, !.years = <<2022, 2025>>],
         [NoEntities EXCEPT !.n = 5],
         [NoEntities EXCEPT !.n = 3],
         [NoEntities EXCEPT !.client = [kind |-> "int", v |-> 1234]],
         [NoEntities EXCEPT !.client = [kind |-> "int", v |-> 77]],
         [NoEntities EXCEPT !.client = [kind |-> "str", v |-> <<"1", "2", "3", "4", " ", "t", "e", "m">>]] }

\* every intent detect_intent can return
ReturnableIntents == {detect_intent(u, m, sims) : u \in BOOLEAN, m \in BOOLEAN, sims \in SimsChoices}
\* names that are not intents of the classifier
OtherIntents == {"sales_time_series_sku", "unknown", "help"}

InitBuilder == /\ schema \in Schemas
               /\ intent \in ReturnableIntents \cup OtherIntents
               /\ text = <<"x">>
               /\ entities = NoEntities
               /\ \E e \in SampleEntities : params = execute_params(intent, e, text)
               /\ pc = "request"
               /\ use_embeddings = FALSE /\ embedding_model = FALSE /\ nlp = FALSE
               /\ best_score = 0 /\ globals = FreshGlobals
               /\ out = NoResult /\ executed = <<>> /\ horizon = 0
               /\ ChatIdle /\ DbIdle /\ ProphetIdle

\* SQLQueryBuilder(...).execute(intent, params)
Build ==
    /\ pc = "request"
    /\ \E db \in DbChoices :
          LET r == SQLQueryBuilder_execute(schema, db, intent, params)
          IN /\ out' = r.out
             /\ executed' = r.executed
             /\ horizon' = r.horizon
             /\ outcome' = r.status
    /\ pc' = "built"
    /\ UNCHANGED <<db_vars, prophet_vars>>
    /\ UNCHANGED <<text, entities, use_embeddings, embedding_model, nlp, intent, params,
                   best_score, globals, schema, reply>>

NextBuilder == Build
SpecBuilder == InitBuilder /\ [][NextBuilder]_vars

-----------------------------------------------------------------------------
(* Schema resolution on its own: _find_table over table lists and         *)
(* _find_column over column lists, with the candidate lists of the code.  *)

MaxTables == 2
MaxCols == 2

\* the sequences of at most n distinct elements of P
Arrangements(P, n) ==
    UNION {{q \in [1..m -> P] : \A i, j \in 1..m : q[i] = q[j] => i = j} : m \in 0..n}

TableNames == { <<"e", "s", "t", "o", "q", "u", "e">>,
                <<"S", "t", "o", "c", "k", "_", "o", "l", "d">>,
                <<"s", "a", "l", "e", "s">>,
                <<"f", "a", "t", "u", "r", "a", "m", "e", "n", "t", "o">>,
                <<"v", "e", "n", "d", "a", "s">>,
                <<"c", "l", "i", "e", "n", "t", "e", "s">>,
                <<"l", "o", "g">> }
TableCands == {StockTableCands, SalesTableCands, ClientTableCands}

SampleColumns ==
    { [name |-> <<"s", "k", "u">>, type |-> <<"V", "A", "R", "C", "H", "A", "R">>],
      [name |-> <<"c", "o", "d", "_", "p", "r", "o", "d", "u", "t", "o">>, type |-> <<"V", "A", "R", "C", "H", "A", "R">>],
      [name |-> <<"q", "t", "d", "_", "s", "k", "u">>, type |-> <<"I", "N", "T", "E", "G", "E", "R">>],
      [name |-> <<"n", "o", "m", "e">>, type |-> <<"V", "A", "R", "C", "H", "A", "R">>],
      [name |-> <<"r", "e", "f">>, type |-> <<"D", "A", "T", "E">>],
      [name |-> <<"v", "a", "l", "o", "r">>, type |-> <<"N", "U", "M", "E", "R", "I", "C">>],
      [name |-> <<"D", "a", "t", "a">>, type |-> <<"D", "A", "T", "E">>] }
ColumnCands == {SalesSkuCands, SalesQtyCands, SalesDateCands, StockSkuCands}
\* the table whose columns are resolved
TheTable == <<"t">>

InitFinder ==
    /\ \/ /\ intent = "_find_table"
          /\ \E names \in Arrangements(TableNames, MaxTables) :
                schema = [i \in DOMAIN names |-> [name |-> names[i], columns |-> <<>>]]
          /\ \E cands \in TableCands : params = [candidates |-> cands]
       \/ /\ intent = "_find_column"
          /\ \E cols \in Arrangements(SampleColumns, MaxCols) :
                schema = <<[name |-> TheTable, columns |-> cols]>>
          /\ \E cands \in ColumnCands : params = [candidates |-> cands]
    /\ pc = "request"
    /\ text = <<"x">> /\ entities = NoEntities
    /\ use_embeddings = FALSE /\ embedding_model = FALSE /\ nlp = FALSE
    /\ best_score = 0 /\ globals = FreshGlobals
    /\ out = NoResult /\ executed = <<>> /\ horizon = 0
    /\ ChatIdle /\ DbIdle /\ ProphetIdle

\* self._find_table(candidates)
FindTable ==
    /\ pc = "request" /\ intent = "_find_table"
    /\ out' = [kind |-> "name", name |-> find_table(schema, params.candidates)]
    /\ pc' = "found"
    /\ UNCHANGED <<db_vars, prophet_vars>>
    /\ UNCHANGED <<text, entities, use_embeddings, embedding_model, nlp, intent, params,
                   best_score, globals, schema, executed, horizon, reply, outcome>>

\* self._find_column(table, candidates)
FindColumn ==
    /\ pc = "request" /\ intent = "_find_column"
    /\ out' = [kind |-> "name", name |-> find_column(schema, TheTable, params.candidates)]
    /\ pc' = "found"
    /\ UNCHANGED <<db_vars, prophet_vars>>
    /\ UNCHANGED <<text, entities, use_embeddings, embedding_model, nlp, intent, params,
                   best_score, globals, schema, executed, horizon, reply, outcome>>

NextFinder == FindTable \/ FindColumn
SpecFinder == InitFinder /\ [][NextFinder]_vars

-----------------------------------------------------------------------------
(* ChatWebSocketManager._build_response: one message through the pipeline *)

\* the messages of the model
RequestTexts == { <<"o", "i">>,
                  <<"s", "k", "u", "_", "1", "2", " ", "2", "0", "2", "3", " ", "2", "0", "2", "4">>,
                  <<"c", "l", "i", "e", "n", "t", "e", " ", "1", "2", "3", "4", " ", "t", "e", "m">>,
                  <<"t", "o", "p", " ", "5", " ", "m", "a", "r", "c", "o", " ", "2", "0", "2", "4">> }
\* the deployment's database, and one that lacks columns
RequestSchemas == {ProductionSchema, SparseSchema}
\* the draws of random.choice
RandomDraws == 0..3

\* the two fixed apologies of _build_response
ClassifierApology == Reply("not designed to answer", 1, <<>>)
QueryApology == Reply("error fetching data", 1, <<>>)

\* `with get_db() as session:` -- get_db is a plain generator function, and a
\* generator object is not a context manager: entering the block raises
with_get_db == "TypeError"

Init == /\ text \in RequestTexts
        /\ schema \in RequestSchemas
        /\ globals = FreshGlobals
        /\ use_embeddings = FALSE /\ embedding_model = FALSE /\ nlp = FALSE
        /\ intent = "" /\ params = NoParams /\ best_score = 0
        /\ entities = NoEntities
        /\ out = NoResult /\ executed = <<>> /\ horizon = 0
        /\ reply = NoReply /\ outcome = ""
        /\ DbIdle /\ ProphetIdle
        /\ pc = "received"

\* intent_classifier = RuleIntentClassifier()
NewClassifier ==
    /\ pc = "received"
    /\ \E import_ok, cached, load_ok, encode_ok, spacy_ok \in BOOLEAN :
          LET c == RuleIntentClassifier_init(globals, TRUE, TRUE, import_ok, cached,
                                             load_ok, encode_ok, spacy_ok)
          IN /\ use_embeddings' = c.use_embeddings
             /\ embedding_model' = c.embedding_model
             /\ nlp' = c.nlp
             /\ globals' = c.globals
    /\ pc' = "classify"
    /\ UNCHANGED <<db_vars, prophet_vars>>
    /\ UNCHANGED <<text, entities, intent, params, best_score, schema, out, executed,
                   horizon, reply, outcome>>

\* the first try block: intent, params = intent_classifier.execute(user_message)
Classify ==
    /\ pc = "classify"
    /\ \E e0 \in {extract_entities(text)} :
       \E sims \in SimsChoices, embed_ok \in BOOLEAN, ner \in NerChoices(text) :
          LET r == execute_from(
                      [use_embeddings |-> use_embeddings, embedding_model |-> embedding_model,
                       nlp |-> nlp], text, e0, sims, embed_ok, ner)
          IN IF r.raised
             THEN /\ reply' = ClassifierApology
                  /\ outcome' = "returned"
                  /\ pc' = "done"
                  /\ UNCHANGED <<intent, params, best_score>>
             ELSE /\ intent' = r.intent
                  /\ params' = r.params
                  /\ best_score' = r.best_score
                  /\ pc' = "query"
                  /\ UNCHANGED <<reply, outcome>>
    /\ UNCHANGED <<db_vars, prophet_vars>>
    /\ UNCHANGED <<text, entities, use_embeddings, embedding_model, nlp, globals, schema,
                   out, executed, horizon>>

\* the second try block: out = self._sql_query_builder.execute(intent, params)
Query ==
    /\ pc = "query"
    /\ \E db \in DbChoices :
          LET r == SQLQueryBuilder_execute(schema, db, intent, params)
          IN /\ executed' = r.executed
             /\ horizon' = r.horizon
             /\ IF r.status # "ok"
                THEN /\ reply' = QueryApology
                     /\ outcome' = "returned"
                     /\ pc' = "done"
                     /\ UNCHANGED out
                ELSE /\ out' = r.out
                     /\ pc' = "respond"
                     /\ UNCHANGED <<reply, outcome>>
    /\ UNCHANGED <<db_vars, prophet_vars>>
    /\ UNCHANGED <<text, entities, use_embeddings, embedding_model, nlp, intent, params,
                   best_score, globals, schema>>

\* reply = response_generator.execute(intent, params, out)
Respond ==
    /\ pc = "respond"
    /\ \E rnd \in RandomDraws : reply' = ResponseGenerator_execute(intent, params, out, rnd)
    /\ pc' = "record"
    /\ UNCHANGED <<db_vars, prophet_vars>>
    /\ UNCHANGED <<text, entities, use_embeddings, embedding_model, nlp, intent, params,
                   best_score, globals, schema, out, executed, horizon, outcome>>

\* ChatHistoryCreator.execute(user_id, user_message, message): the row it
\* adds and commits
ChatHistoryCreator_execute(rows, user_message, message) ==
    Append(rows, [user_message |-> user_message, message |-> message])

\* the with block that records the exchange, and `return reply`; inside the
\* block ChatHistoryCreator raises when the user is not an active one
Record ==
    /\ pc = "record"
    /\ \E user_found \in BOOLEAN :
          IF with_get_db = "TypeError" \/ ~ user_found
          THEN outcome' = "raised" /\ UNCHANGED chat_history
          ELSE /\ outcome' = "returned"
               /\ chat_history' =
                     ChatHistoryCreator_execute(ChatHistoryCreator_execute(chat_history, TRUE, text),
                                                FALSE, reply)
    /\ pc' = "done"
    /\ UNCHANGED <<sales, history, prophet_vars>>
    /\ UNCHANGED <<text, entities, use_embeddings, embedding_model, nlp, intent, params,
                   best_score, globals, schema, out, executed, horizon, reply>>

Next == NewClassifier \/ Classify \/ Query \/ Respond \/ Record
Spec == Init /\ [][Next]_vars

-----------------------------------------------------------------------------
(* A comparison served end to end: SQLQueryBuilder.execute on          *)
(* sku_sales_compare, then ResponseGenerator.execute on its result.    *)

\* requests for a comparison, as a caller of execute may hand them over
CompareParams ==
    LET sku12 == <<"S", "K", "U", "_", "1", "2">>
        m(a, y) == [month |-> a, year |-> y]
    IN { ("sku" :> sku12) @@ ("periods" :> <<m(1, 2024), m(3, 2024)>>),
         ("sku" :> sku12) @@ ("periods" :> <<m(3, 2024), m(3, 2023)>>) @@ ("years" :> <<2024, 2023>>),
         ("sku" :> sku12) @@ ("years" :> <<2023, 2024>>),
         "years" :> <<2025, 2022>> }

InitCompare == /\ schema \in RequestSchemas
               /\ intent = "sku_sales_compare"
               /\ params \in CompareParams
               /\ sales \in (-1..2 * MaxTotal) \X (-1..2 * MaxTotal)
               /\ text = <<"x">>
               /\ entities = NoEntities
               /\ pc = "request"
               /\ use_embeddings = FALSE /\ embedding_model = FALSE /\ nlp = FALSE
               /\ best_score = 0 /\ globals = FreshGlobals
               /\ out = NoResult /\ executed = <<>> /\ horizon = 0
               /\ ChatIdle /\ history = <<>> /\ chat_history = <<>> /\ ProphetIdle

\* execute(intent, params) against a database whose sums for the two sides
\* are `sales`, in halves
CompareQuery ==
    /\ pc = "request"
    /\ sales # <<>>
    /\ \E fails \in BOOLEAN :
          LET db == [DbAnswer(sales[1], sales[2]) EXCEPT !.fails = fails]
              r == SQLQueryBuilder_execute(schema, db, intent, params)
          IN /\ out' = r.out
             /\ executed' = r.executed
             /\ horizon' = r.horizon
             /\ outcome' = r.status
             /\ pc' = IF r.status = "ok" THEN "respond" ELSE "done"
    /\ UNCHANGED <<db_vars, prophet_vars>>
    /\ UNCHANGED <<text, entities, use_embeddings, embedding_model, nlp, intent, params,
                   best_score, globals, schema, reply>>

NextCompare == CompareQuery \/ Respond
SpecCompare == InitCompare /\ [][NextCompare]_vars

-----------------------------------------------------------------------------
(* The response generator on its own: execute(intent, params, result) on  *)
(* results of every type, those no builder branch returns included.       *)

\* results: None, numbers, lists, the empty dict, and the dicts and lists
\* the builder returns
SampleResults ==
    LET sku12 == <<"S", "K", "U", "_", "1", "2">>
    IN { [kind |-> "none"],
         [kind |-> "number", v |-> 0],
         [kind |-> "number", v |-> 7],
         [kind |-> "list", rows |-> 0],
         [kind |-> "list", rows |-> 1],
         [kind |-> "dict"],
         [kind |-> "total_stock", total_stock |-> 5],
         [kind |-> "distinct_products", distinct_products |-> 3],
         [kind |-> "active_clients", active_clients |-> 2, note |-> FALSE],
         [kind |-> "compare_periods", sku |-> sku12, period1 |-> 3, period2 |-> 1],
         [kind |-> "compare_years", sku |-> sku12, year1 |-> 1, year2 |-> 1],
         [kind |-> "best_month", sku |-> sku12, found |-> TRUE],
         [kind |-> "best_month", sku |-> sku12, found |-> FALSE],
         [kind |-> "time_series", rows |-> 0],
         [kind |-> "time_series", rows |-> 2],
         [kind |-> "total", total |-> 4, filters |-> NoParams],
         [kind |-> "top", rows |-> 0],
         [kind |-> "top", rows |-> 2],
         [kind |-> "total_stock_client", total_stock_client |-> 6, filters |-> "client" :> 77],
         [kind |-> "error", error |-> "no history"],
         [kind |-> "message", message |-> "greeting"],
         [kind |-> "predictions", fitted |-> TRUE, periods |-> 30],
         [kind |-> "predictions", fitted |-> FALSE, periods |-> 30],
         [kind |-> "sku_prediction", sku |-> sku12, periods |-> 365] }
\* params of a request
SampleParams ==
    { NoParams,
      "sku" :> <<"S", "K", "U", "_", "1", "2">>,
      "period" :> [str |-> "next_month"],
      "original_text" :> <<"x">> }

InitResponse == /\ intent \in ResponseHandlers \cup OtherIntents
                /\ params \in SampleParams
                /\ out \in SampleResults
                /\ pc = "respond"
                /\ text = <<"x">>
                /\ entities = NoEntities
                /\ use_embeddings = FALSE /\ embedding_model = FALSE /\ nlp = FALSE
                /\ best_score = 0 /\ globals = FreshGlobals
                /\ schema = <<>> /\ executed = <<>> /\ horizon = 0
                /\ ChatIdle /\ DbIdle /\ ProphetIdle

\* ResponseGenerator().execute(intent, params, result)
Format ==
    /\ pc = "respond"
    /\ \E rnd \in RandomDraws : reply' = ResponseGenerator_execute(intent, params, out, rnd)
    /\ outcome' = IF reply'.template = "raised" THEN "raised" ELSE "returned"
    /\ pc' = "done"
    /\ UNCHANGED <<db_vars, prophet_vars>>
    /\ UNCHANGED <<text, entities, use_embeddings, embedding_model, nlp, intent, params,
                   best_score, globals, schema, out, executed, horizon>>

NextResponse == Format
SpecResponse == InitResponse /\ [][NextResponse]_vars

-----------------------------------------------------------------------------
(* sales_between_dates against a sales table whose rows are known: the    *)
(* statement execute builds is evaluated on the rows.                     *)

MaxRows == 2

\* a calendar date
Date(y, mo, d) == [year |-> y, month |-> mo, day |-> d]
\* a <= b for dates
date_le(a, b) ==
    \/ a.year < b.year
    \/ a.year = b.year /\ a.month < b.month
    \/ a.year = b.year /\ a.month = b.month /\ a.day <= b.day
\* to_date(:ym, 'YYYY-MM'): the first day of the month
to_date(ym) == Date(ym.year, ym.month, 1)

\* whether the row satisfies the where clause w of a statement with the
\* bound values bind
row_satisfies(row, w, bind) ==
    CASE w = "sku" -> row.sku = bind.sku
      [] w = "between_ym" ->
            date_le(to_date(bind.start_ym), row.date) /\ date_le(row.date, to_date(bind.end_ym))
      [] w = "between_years" -> bind.y1 <= row.date.year /\ row.date.year <= bind.y2
      [] OTHER -> TRUE
RECURSIVE sum_qty(_)
sum_qty(R) ==
    IF R = {} THEN 0
    ELSE LET row == CHOOSE x \in R : TRUE IN row.qty + sum_qty(R \ {row})
\* select coalesce(sum(qty), 0) from the table where <clauses>
select_sum(st, rows) ==
    sum_qty({row \in rows : \A k \in DOMAIN st.where : row_satisfies(row, st.where[k], st.bind)})

\* what the database answers to the statement execute(i, prm) hands it, when
\* the table holds rows (0 when execute raises before any statement)
statement_total(sch, i, prm, rows) ==
    LET qs == SQLQueryBuilder_execute(sch, DbAnswer(0, 0), i, prm).executed
    IN IF qs = <<>> THEN 0 ELSE select_sum(qs[1], rows)

\* the rows a sales table may hold
SalesRows ==
    LET sku12 == <<"S", "K", "U", "_", "1", "2">>
        row(y, mo, d, q) == [sku |-> sku12, date |-> Date(y, mo, d), qty |-> q]
    IN { row(2023, 12, 31, 1), row(2024, 1, 1, 2), row(2024, 1, 15, 1), row(2024, 3, 1, 2),
         row(2024, 3, 2, 1), row(2024, 3, 31, 2), row(2024, 4, 1, 1),
         [sku |-> <<"S", "K", "U", "_", "9">>, date |-> Date(2024, 2, 10), qty |-> 2] }
\* what extract_entities finds in a request naming two months with years
BetweenEntities ==
    LET m(a, y) == [month |-> a, year |-> y]
    IN { [NoEntities EXCEPT !.months = <<m(1, 2024), m(3, 2024)>>, !.years = <<2024, 2024>>],
         [NoEntities EXCEPT !.months = <<m(12, 2023), m(1, 2024)>>, !.years = <<2023, 2024>>],
         [NoEntities EXCEPT !.sku = <<"S", "K", "U", "_", "1", "2">>,
                            !.months = <<m(3, 2024), m(3, 2024)>>, !.years = <<2024, 2024>>] }

InitBetween == /\ schema \in RequestSchemas
               /\ intent = "sales_between_dates"
               /\ text = <<"x">>
               /\ entities \in BetweenEntities
               /\ params = execute_params(intent, entities, text)
               /\ sales \in {R \in SUBSET SalesRows : Cardinality(R) <= MaxRows}
               /\ pc = "request"
               /\ use_embeddings = FALSE /\ embedding_model = FALSE /\ nlp = FALSE
               /\ best_score = 0 /\ globals = FreshGlobals
               /\ out = NoResult /\ executed = <<>> /\ horizon = 0
               /\ ChatIdle /\ history = <<>> /\ chat_history = <<>> /\ ProphetIdle

\* execute(intent, params): the scalar the connection returns is the sum
\* the statement selects from the rows
BetweenQuery ==
    /\ pc = "request"
    /\ \E fails \in BOOLEAN :
       \E total \in {statement_total(schema, intent, params, sales)} :
       \E r \in {SQLQueryBuilder_execute(schema, [DbAnswer(total, 0) EXCEPT !.fails = fails],
                                         intent, params)} :
          /\ out' = r.out
          /\ executed' = r.executed
          /\ horizon' = r.horizon
          /\ outcome' = r.status
    /\ pc' = "built"
    /\ UNCHANGED <<db_vars, prophet_vars>>
    /\ UNCHANGED <<text, entities, use_embeddings, embedding_model, nlp, intent, params,
                   best_score, globals, schema, reply>>

NextBetween == BetweenQuery
SpecBetween == InitBetween /\ [][NextBetween]_vars

-----------------------------------------------------------------------------
(* The forecast service on its own: the three predictions applied to the  *)
(* frame read from the database.                                          *)

MaxSkus == 2

\* the SKUs of the frame, in the order groupby yields them
SkuOrder == << <<"A">>, <<"B">>, <<"a">> >>
\* series of one SKU: a single point; exactly two points; four equal points
\* and an outlier; a negative quantity
SampleSeries ==
    LET r(d, v) == [ds |-> d, y |-> v]
    IN { << r(1, 4) >>,
         << r(1, 4), r(2, 6) >>,
         << r(1, 0), r(2, 0), r(3, 0), r(4, 0), r(5, 9) >>,
         << r(3, -5), r(6, 10) >> }
\* what cleaning and the model may do for one SKU
ProphetOutcomes ==
    { [kind |-> "clean raises", a |-> 0, b |-> 0, k |-> 1],
      [kind |-> "prophet raises", a |-> 0, b |-> 0, k |-> 1],
      [kind |-> "forecast", a |-> 10, b |-> 10, k |-> 7],
      [kind |-> "forecast", a |-> 10, b |-> -1, k |-> 1],
      [kind |-> "forecast", a |-> 10, b |-> 0, k |-> 7],
      [kind |-> "forecast", a |-> 1, b |-> 10, k |-> 7],
      [kind |-> "forecast", a |-> 10, b |-> 1, k |-> 7] }
\* the frame holding the SKUs of S with the rows given
frame_of(S, rows) ==
    LET present(x) == x \in S
        order == SelectSeq(SkuOrder, present)
    IN [i \in DOMAIN order |-> [sku |-> order[i], rows |-> rows[order[i]]]]
\* the params a forecast request may carry
ForecastParams(i) ==
    IF i = "predict_stockout" THEN {NoParams}
    ELSE IF i = "predict_top_sales"
         THEN {NoParams, "period" :> [type |-> "next_month"]}
         ELSE {NoParams, "sku" :> <<"A">>, "sku" :> <<"Z">>,
               ("sku" :> <<"A">>) @@ ("period" :> [type |-> "year", year |-> 2025])}

InitForecast ==
    /\ intent \in {"predict_stockout", "predict_top_sales", "predict_sku_sales"}
    /\ params \in ForecastParams(intent)
    /\ \E S \in SUBSET Range(SkuOrder) :
          /\ Cardinality(S) <= MaxSkus
          /\ \E rows \in [S -> SampleSeries] : history = frame_of(S, rows)
          /\ prophet \in [S -> ProphetOutcomes]
    /\ fits = <<>>
    /\ pc = "request"
    /\ text = <<"x">> /\ entities = NoEntities
    /\ use_embeddings = FALSE /\ embedding_model = FALSE /\ nlp = FALSE
    /\ best_score = 0 /\ globals = FreshGlobals
    /\ BuilderIdle /\ ChatIdle /\ sales = <<>> /\ chat_history = <<>>
    /\ calls = <<>> /\ cache = <<>> /\ pool = {} /\ started = 0 /\ returned = {}

\* handle_forecast_intent once the frame is read
Forecast ==
    /\ pc = "request"
    /\ LET r == predict(intent, params, history, prophet)
       IN /\ out' = r.out
          /\ fits' = r.fits
          /\ horizon' = IF r.fits = <<>> THEN 0 ELSE r.fits[1].horizon
    /\ outcome' = "ok"
    /\ pc' = "built"
    /\ UNCHANGED <<text, entities, use_embeddings, embedding_model, nlp, intent, params,
                   best_score, globals, schema, executed, reply>>
    /\ UNCHANGED <<db_vars, prophet, calls, cache, pool, started, returned>>

NextForecast == Forecast
SpecForecast == InitForecast /\ [][NextForecast]_vars

-----------------------------------------------------------------------------
(* run_prophet over the cache: calls served one after the other            *)
(* (SpecCache, the way ForecastService calls it) and calls running in two  *)
(* threads of the executor (SpecThreads).                                  *)

MaxCalls == 3

\* the frames run_prophet is called with: two orders of the same rows, a
\* single row, rows with a negative quantity, and rows sharing a date
CacheFrames ==
    LET r(d, v) == [ds |-> d, y |-> v]
    IN { << r(1, 4), r(2, 6) >>,
         << r(2, 6), r(1, 4) >>,
         << r(1, 4) >>,
         << r(1, 4), r(2, -6) >>,
         << r(2, 6), r(1, 4), r(1, 2) >> }
CachePool ==
    {[sku |-> k, df |-> f, horizon |-> h] :
        k \in { <<"A", "1">>, <<"A", ".", "1">> }, f \in CacheFrames, h \in {30, 365}}
\* calls for one key
SameKeyPool ==
    {a \in CachePool : a.sku = <<"A", "1">> /\ a.horizon = 30 /\ Len(a.df) = 2 /\ a.df[2].y > 0}

CacheOnly ==
    /\ text = <<>> /\ entities = NoEntities /\ pc = "cache"
    /\ ClassifierIdle /\ BuilderIdle /\ ChatIdle /\ DbIdle
    /\ prophet = <<>> /\ fits = <<>>
    /\ cache = EmptyCache /\ started = 0 /\ returned = {}

InitCache == /\ CacheOnly
             /\ pool = CachePool
             /\ calls = [p \in {1} |-> IdleCall]

InitThreads == /\ CacheOnly
               /\ pool = SameKeyPool
               /\ calls = [p \in {1, 2} |-> IdleCall]

CacheStep(p, c, files) ==
    /\ calls' = [calls EXCEPT ![p] = c]
    /\ cache' = files
    /\ UNCHANGED <<text, entities, pc, use_embeddings, embedding_model, nlp, intent, params,
                   best_score, globals, schema, out, executed, horizon, reply, outcome>>
    /\ UNCHANGED <<db_vars, prophet, fits, pool>>

\* run_prophet(sku, df, horizon) up to the digest: the guard on the length,
\* the clip and hash_dataframe
CallOf(p) ==
    /\ calls[p].pc = "idle"
    /\ started < MaxCalls
    /\ \E a \in pool :
          CacheStep(p,
                    IF Len(a.df) < 2
                    THEN [IdleCall EXCEPT !.pc = "none", !.sku = a.sku, !.df = a.df,
                                          !.horizon = a.horizon]
                    ELSE [IdleCall EXCEPT !.pc = "load_model", !.sku = a.sku, !.df = a.df,
                                          !.horizon = a.horizon,
                                          !.df_hash = hash_dataframe(clip(a.df))],
                    cache)
    /\ started' = started + 1
    /\ UNCHANGED returned

\* model = load_cached_model(sku, df_hash); on a miss, train_prophet_model
LoadModelOf(p) ==
    LET c == calls[p]
        path == get_model_path(c.sku, c.df_hash)
    IN /\ c.pc = "load_model"
       /\ CacheStep(p,
                    IF path \notin DOMAIN cache.models
                    THEN [c EXCEPT !.pc = "save_model", !.fitted = TRUE,
                                   !.model = train_prophet_model(clip(c.df))]
                    ELSE IF cache.models[path].state = "partial"
                         THEN [c EXCEPT !.pc = "raised"]
                         ELSE [c EXCEPT !.pc = "load_forecast",
                                        !.model = cache.models[path].content,
                                        !.model_from = cache.models[path].key],
                    cache)
       /\ UNCHANGED <<started, returned>>

\* save_model: open(path, "wb")
OpenModelOf(p) ==
    LET c == calls[p]
        path == get_model_path(c.sku, c.df_hash)
    IN /\ c.pc = "save_model"
       /\ CacheStep(p, [c EXCEPT !.pc = "dump_model"],
                    [cache EXCEPT !.models = opened(@, path, <<c.sku, c.df_hash>>, NoModel)])
       /\ UNCHANGED <<started, returned>>

\* save_model: pickle.dump(model, f) and the close of the file
DumpModelOf(p) ==
    LET c == calls[p]
        path == get_model_path(c.sku, c.df_hash)
    IN /\ c.pc = "dump_model"
       /\ CacheStep(p, [c EXCEPT !.pc = "load_forecast"],
                    [cache EXCEPT !.models = dumped(@, path, c.model)])
       /\ UNCHANGED <<started, returned>>

\* forecast = load_cached_forecast(sku, df_hash, horizon); on a miss,
\* model.predict
LoadForecastOf(p) ==
    LET c == calls[p]
        path == get_forecast_path(c.sku, c.df_hash, c.horizon)
    IN /\ c.pc = "load_forecast"
       /\ \E draw \in Draws :
             CacheStep(p,
                       IF path \notin DOMAIN cache.forecasts
                       THEN [c EXCEPT !.pc = "save_forecast", !.predicted = TRUE,
                                      !.forecast = model_predict(c.model, c.horizon, draw)]
                       ELSE IF cache.forecasts[path].state = "partial"
                            THEN [c EXCEPT !.pc = "raised"]
                            ELSE [c EXCEPT !.pc = "done",
                                           !.forecast = cache.forecasts[path].content,
                                           !.forecast_from = cache.forecasts[path].key],
                       cache)
       /\ UNCHANGED <<started, returned>>

\* save_forecast: joblib.dump opens the file
OpenForecastOf(p) ==
    LET c == calls[p]
        path == get_forecast_path(c.sku, c.df_hash, c.horizon)
    IN /\ c.pc = "save_forecast"
       /\ CacheStep(p, [c EXCEPT !.pc = "dump_forecast"],
                    [cache EXCEPT !.forecasts =
                        opened(@, path, <<c.sku, c.df_hash, c.horizon>>, NoForecast)])
       /\ UNCHANGED <<started, returned>>

\* save_forecast: joblib.dump writes the forecast and closes the file
DumpForecastOf(p) ==
    LET c == calls[p]
        path == get_forecast_path(c.sku, c.df_hash, c.horizon)
    IN /\ c.pc = "dump_forecast"
       /\ CacheStep(p, [c EXCEPT !.pc = "done"],
                    [cache EXCEPT !.forecasts = dumped(@, path, c.forecast)])
       /\ UNCHANGED <<started, returned>>

\* the end of the call: `return forecast`, `return None`, or the exception
\* of a load leaving run_prophet
ReturnOf(p) ==
    LET c == calls[p]
    IN /\ c.pc \in {"done", "none", "raised"}
       /\ returned' = returned \cup
             {[sku |-> c.sku, df |-> c.df, horizon |-> c.horizon, ended |-> c.pc,
               forecast |-> IF c.pc = "done" THEN c.forecast ELSE NoForecast]}
       /\ CacheStep(p, IdleCall, cache)
       /\ UNCHANGED started

\* the steps, taken by any thread
Call == \E p \in DOMAIN calls : CallOf(p)
LoadModel == \E p \in DOMAIN calls : LoadModelOf(p)
OpenModel == \E p \in DOMAIN calls : OpenModelOf(p)
DumpModel == \E p \in DOMAIN calls : DumpModelOf(p)
LoadForecast == \E p \in DOMAIN calls : LoadForecastOf(p)
OpenForecast == \E p \in DOMAIN calls : OpenForecastOf(p)
DumpForecast == \E p \in DOMAIN calls : DumpForecastOf(p)
Return == \E p \in DOMAIN calls : ReturnOf(p)

NextCache ==
    \/ Call \/ LoadModel \/ OpenModel \/ DumpModel
    \/ LoadForecast \/ OpenForecast \/ DumpForecast \/ Return
SpecCache == InitCache /\ [][NextCache]_vars
SpecThreads == InitThreads /\ [][NextCache]_vars

-----------------------------------------------------------------------------
(* Properties of extract_entities *)

\* a character that belongs to a word of the text as the user typed it
TokenChar(c) == IsWord(c) \/ (c \in AccentedSet /\ c # "EUR")

\* the tokens sku[_ -]?<digits> of t, in any letter casing, as
\* <<first position, first digit, last digit>>
SkuTokens(t) ==
    {x \in (1..Len(t)) \X (1..Len(t)) \X (1..Len(t)) :
        LET i == x[1]
            d == x[2]
            j == x[3]
        IN /\ i + 2 <= Len(t)
           /\ t[i] \in {"s", "S"} /\ t[i + 1] \in {"k", "K"} /\ t[i + 2] \in {"u", "U"}
           /\ (i = 1 \/ ~ TokenChar(t[i - 1]))
           /\ (d = i + 3 \/ (d = i + 4 /\ t[i + 3] \in {"_", "-", " "}))
           /\ d <= j
           /\ \A k \in d..j : IsDigit(t[k])
           /\ (j = Len(t) \/ ~ TokenChar(t[j + 1]))}

\* 'SKU_' followed by the digits of the first token of t, None without token
SkuOfFirstToken(t) ==
    IF SkuTokens(t) = {} THEN None
    ELSE LET x == CHOOSE x \in SkuTokens(t) : \A y \in SkuTokens(t) : x[1] <= y[1]
         IN <<"S", "K", "U", "_">> \o SubSeq(t, x[2], x[3])

\* C6 (as claimed): for every text, extract_entities returns sku = 'SKU_' +
\* the digits of the first token sku[_ -]?<digits> (any casing, any of the
\* separators) of the text, and None when the text has no such token.
C6_SkuOfFirstTokenOfText ==
    pc = "extracted" => entities.sku = SkuOfFirstToken(text)

\* C6 (amended): the same with the tokens taken from the ASCII
\* transliteration of the text, which is what extract_entities searches: a
\* token whose letters carry diacritics ('sku 12' with an acute u) counts as well.
C6_SkuOfFirstTokenOfTransliteration ==
    pc = "extracted" => entities.sku = SkuOfFirstToken(unidecode(text))

\* two tokens with different digits, the first one written with a diacritic,
\* have been extracted
C6_Witness ==
    /\ pc = "extracted"
    /\ text # unidecode(text)
    /\ \E x, y \in SkuTokens(unidecode(text)) :
          /\ x[1] < y[1]
          /\ SubSeq(unidecode(text), x[2], x[3]) # SubSeq(unidecode(text), y[2], y[3])
    /\ entities.sku # None

\* the token that follows the first 'cliente'/'client' of t (after blanks
\* and an optional ':' or '#'): the characters up to the next blank
RECURSIVE TokenRunEnd(_, _)
TokenRunEnd(t, i) == IF i <= Len(t) /\ ClientClass(t[i]) /\ t[i] # " "
                     THEN TokenRunEnd(t, i + 1) ELSE i - 1
TokenAfterClient(t) ==
    LET hits == {i \in 1..Len(t) : HasAtI(t, i, <<"c", "l", "i", "e", "n", "t">>)}
    IN IF hits = {} THEN <<>>
       ELSE LET i == Min(hits)
                p == IF HasAtI(t, i, <<"c", "l", "i", "e", "n", "t", "e">>) THEN i + 7 ELSE i + 6
                q == SpaceRunEnd(t, p) + 1
                r == IF q <= Len(t) /\ t[q] \in {":", "#"} THEN q + 1 ELSE q
                g == SpaceRunEnd(t, r) + 1
            IN SubSeq(t, g, TokenRunEnd(t, g))

\* C8: when the token following 'cliente'/'client' (optionally after ':' or
\* '#') consists of 2 to 6 digits, client is that integer, also when further
\* words follow the number; otherwise client is the string token that follows.
C8_ClientIsFollowingToken ==
    (pc = "extracted" /\ TokenAfterClient(text) # <<>>) =>
        entities.client = IF fullmatch_2_6_digits(TokenAfterClient(text))
                          THEN [kind |-> "int", v |-> int(TokenAfterClient(text))]
                          ELSE [kind |-> "str", v |-> TokenAfterClient(text)]

-----------------------------------------------------------------------------
(* Properties of RuleIntentClassifier.execute *)

\* `phrase in text.lower()` for some phrase of the set
HasPhrase(t, phrases) == \E ph \in phrases : Contains(lower(t), ph)

\* C2: a text that contains a greeting or farewell phrase of the vocabulary
\* is classified as that greeting/farewell intent, with empty params, also
\* when business keywords occur in it.
C2_GreetingPhraseWins ==
    (pc = "classified" /\ (HasPhrase(text, INTENT_EXAMPLES_greeting) \/ HasPhrase(text, INTENT_EXAMPLES_farewell))) =>
        /\ outcome = "returned"
        /\ intent \in {i \in {"greeting", "farewell"} :
                          \/ i = "greeting" /\ HasPhrase(text, INTENT_EXAMPLES_greeting)
                          \/ i = "farewell" /\ HasPhrase(text, INTENT_EXAMPLES_farewell)}
        /\ params = NoParams

\* the tags under which the unknown intent is written
UnknownTags == {"unknown", "unknown_intent"}

\* C3: when the best similarity is below SEMANTIC_THRESHOLD the semantic
\* intent is not accepted: execute returns the unknown intent and params
\* carry the input text under original_text.
C3_BelowThresholdIsUnknown ==
    (pc = "classified" /\ outcome = "returned" /\ use_embeddings /\ embedding_model
       /\ best_score < SEMANTIC_THRESHOLD) =>
        /\ intent \in UnknownTags
        /\ has(params, "original_text")
        /\ params.original_text = text

\* the embedding model is unavailable to the instance: disabled, not cached
\* or not loaded
Unavailable == ~ use_embeddings \/ ~ embedding_model

Canonical(v) == /\ Len(v) > 4
                /\ SubSeq(v, 1, 4) = <<"S", "K", "U", "_">>
                /\ \A k \in 5..Len(v) : IsDigit(v[k])

-----------------------------------------------------------------------------
(* Properties of SQLQueryBuilder.execute *)

\* C5: every intent the classifier can return (each vocabulary key after
\* alias folding, and the unknown intent) is handled by
\* SQLQueryBuilder.execute without the unsupported-intent error and has a
\* handler in ResponseGenerator; any other intent value raises that error.
C5_ClassifierIntentsAreSupported ==
    /\ ReturnableIntents \subseteq ResponseHandlers
    /\ pc = "built" =>
          (outcome = "ValueError: unsupported") = (intent \notin ReturnableIntents)

\* the folded alias has been answered from the database, and a name outside
\* the vocabulary would be refused
C5_Witness ==
    /\ pc = "built"
    /\ intent = "sales_time_series"
    /\ outcome = "ok"
    /\ executed # <<>>
    /\ "sales_time_series_sku" \notin ReturnableIntents

\* what the templates put where a column name is missing
Placeholders == { <<"n", "u", "l", "l">>, <<"N", "o", "n", "e">>, <<"n", "o", "n", "e">> }

\* C10: for every query intent, a column of the template that cannot be
\* resolved makes execute raise a resolution error before any query; no
\* query is built or run with a placeholder in place of a column.
C10_NoQueryWithPlaceholder ==
    pc = "built" =>
        /\ outcome = "ValueError: column" => executed = <<>>
        /\ \A k \in DOMAIN executed : \A j \in DOMAIN executed[k].idents :
               executed[k].idents[j] \notin Placeholders

\* the text of a statement: everything but the bound values
QueryText(st) == [intent |-> st.intent, table |-> st.table, idents |-> st.idents, where |-> st.where]
QueryTexts(qs) == {QueryText(qs[k]) : k \in DOMAIN qs}
\* which keys a request carries: the keys of params and, for the values that
\* are dicts (start, end, period), their keys
Shape(prm) ==
    [k \in DOMAIN prm |-> IF k \in {"start", "end", "period"} THEN DOMAIN prm[k] ELSE {}]
\* a connection that answers
AnsweringDb == DbAnswer(0, 0)
\* the requests of the same intent that carry the same keys as the current one
SameShapeParams ==
    {p \in {execute_params(intent, e, text) : e \in SampleEntities} : Shape(p) = Shape(params)}

\* C11: the text of the statements execute builds depends only on the intent,
\* the reflected schema and the keys the request carries: a request of the
\* same intent with the same keys and other values (sku, client, n, month,
\* year) that reaches the database is sent the identical text; the values
\* travel only as bound parameters.
C11_TextIgnoresValues ==
    (pc = "built" /\ executed # <<>>) =>
        \A p \in SameShapeParams :
            LET r == SQLQueryBuilder_execute(schema, AnsweringDb, intent, p)
            IN r.executed # <<>> => QueryTexts(r.executed) = QueryTexts(executed)
\* two requests with different values have been answered with one text and
\* different bound values
C11_Witness ==
    /\ pc = "built" /\ outcome = "ok" /\ executed # <<>>
    /\ DOMAIN executed[1].bind # {}
    /\ \E p \in SameShapeParams :
          /\ p # params
          /\ LET r == SQLQueryBuilder_execute(schema, AnsweringDb, intent, p)
             IN /\ r.executed # <<>>
                /\ r.executed[1].bind # executed[1].bind
                /\ QueryTexts(r.executed) = QueryTexts(executed)

\* the relation a comparison reply states
Says(r, rel) == r.template \in {"periods: " \o rel, "years: " \o rel}
\* the two sides of the comparison asked for
Sides(prm) == IF has(prm, "periods") THEN <<[m |-> prm.periods[1].month, y |-> prm.periods[1].year],
                                             [m |-> prm.periods[2].month, y |-> prm.periods[2].year]>>
              ELSE <<[y |-> prm.years[1]], [y |-> prm.years[2]]>>

\* C12: for sku_sales_compare with two periods (or two years) the two
\* sides are computed independently (one statement per side, the same text,
\* each bound to its own period), the result holds both raw totals with
\* NULL coalesced to 0, and the reply says the first is larger iff
\* total1 > total2, the second iff total2 > total1, equal iff they are equal.
\* The totals are the sums the database holds, in halves.
C12_CompareStatesTheLargerSide ==
    (pc = "record" /\ sales # <<>>) =>
        LET t1 == IF sales[1] = -1 THEN 0 ELSE sales[1]
            t2 == IF sales[2] = -1 THEN 0 ELSE sales[2]
            side(k) == [x \in DOMAIN Sides(params)[k] |-> executed[k].bind[x]]
        IN /\ Len(executed) = 2
           /\ QueryText(executed[1]) = QueryText(executed[2])
           /\ side(1) = Sides(params)[1] /\ side(2) = Sides(params)[2]
           /\ out.kind \in {"compare_periods", "compare_years"}
           /\ (IF out.kind = "compare_periods" THEN <<2 * out.period1, 2 * out.period2>>
               ELSE <<2 * out.year1, 2 * out.year2>>) = <<t1, t2>>
           /\ Says(reply, "first larger") <=> t1 > t2
           /\ Says(reply, "second larger") <=> t2 > t1
           /\ Says(reply, "equal") <=> t1 = t2

-----------------------------------------------------------------------------
(* Properties of the forecast service *)

\* the groups of the frame and what cleaning leaves of them
Cleaned(k) == clean_outliers(history[k].rows)
MultiSku == intent \in {"predict_stockout", "predict_top_sales"}
SkusOf(s) == {s[k].sku : k \in DOMAIN s}
\* the rows predict_sku_sales selects for the SKU asked
Selected == clean_outliers(rows_of_sku(history, params.sku))

\* C13: a SKU whose series has fewer than 2 points after outlier cleaning is
\* never handed to run_prophet (no fit, no cache lookup or store); in
\* predict_stockout and predict_top_sales it is skipped and the other SKUs
\* are still processed; in predict_sku_sales the request returns an error
\* result; a series with exactly 2 cleaned points is accepted and forecast.
C13_ShortSeriesNeverFitted ==
    pc = "built" =>
        /\ \A c \in DOMAIN fits : Len(fits[c].rows) >= 2
        /\ MultiSku =>
              \A k \in DOMAIN history :
                 /\ Len(Cleaned(k)) < 2 =>
                       /\ history[k].sku \notin SkusOf(fits)
                       /\ history[k].sku \notin SkusOf(out.predictions)
                 /\ (Len(Cleaned(k)) >= 2 /\ prophet[history[k].sku].kind # "clean raises") =>
                       \E c \in DOMAIN fits : /\ fits[c].sku = history[k].sku
                                              /\ fits[c].rows = Cleaned(k)
                 /\ (Len(Cleaned(k)) = 2 /\ prophet[history[k].sku].kind = "forecast"
                        /\ intent = "predict_top_sales") =>
                       history[k].sku \in SkusOf(out.predictions)
        /\ (intent = "predict_sku_sales" /\ has(params, "sku")
               /\ rows_of_sku(history, params.sku) # <<>>) =>
              /\ Len(Selected) < 2 => (out.kind = "error" /\ fits = <<>>)
              /\ (Len(Selected) = 2 /\ out.kind # "error") =>
                    (out.kind = "sku_prediction" /\ Len(fits) = 1 /\ fits[1].rows = Selected)
\* a frame with a series of one point and a series of exactly two points has
\* been forecast: only the second was handed to run_prophet and has an entry
C13_Witness ==
    /\ pc = "built" /\ intent = "predict_top_sales"
    /\ Len(history) = 2
    /\ Len(Cleaned(1)) = 1 /\ Len(Cleaned(2)) = 2
    /\ SkusOf(fits) = {history[2].sku}
    /\ SkusOf(out.predictions) = {history[2].sku}

\* the SKUs for which cleaning or run_prophet raises
Failing == {x \in DOMAIN prophet : prophet[x].kind \in {"clean raises", "prophet raises"}}
\* the frame without the groups of the failing SKUs
WithoutFailing ==
    LET stays(g) == g.sku \notin Failing
    IN SelectSeq(history, stays)

\* C19: in predict_stockout and predict_top_sales, when cleaning, fitting,
\* cache access or prediction raises for a SKU, that SKU is omitted, the
\* predictions are those the same request gives on the frame without the
\* failing SKUs, and the request returns a predictions result.
C19_FailureIsPerSku ==
    (pc = "built" /\ MultiSku /\ history # <<>>) =>
        /\ outcome = "ok"
        /\ out.kind = "predictions"
        /\ SkusOf(out.predictions) \cap Failing = {}
        /\ out.predictions =
              (IF intent = "predict_stockout"
               THEN predict_stockout(WithoutFailing, prophet)
               ELSE predict_top_sales(WithoutFailing, prophet, forecast_periods(params))).out.predictions
\* the first SKU of the frame failed inside run_prophet and the second is
\* reported all the same
C19_Witness ==
    /\ pc = "built" /\ intent = "predict_stockout"
    /\ Len(history) = 2
    /\ prophet[history[1].sku].kind = "prophet raises"
    /\ history[1].sku \in SkusOf(fits)
    /\ SkusOf(out.predictions) = {history[2].sku}

\* the forecast run_prophet returned for the group k
ForecastOf(k) == forecast_frame(prophet[history[k].sku], Len(Cleaned(k)), 30)
\* the mean of the last 7 predicted values is <= 0 or below 20% of the mean
\* of the series
MeanFlags(k) ==
    \/ tail_sum(ForecastOf(k), 7) <= 0
    \/ 5 * Len(Cleaned(k)) * tail_sum(ForecastOf(k), 7)
          < tail_count(ForecastOf(k), 7) * sum_y(Cleaned(k))

\* C20: predict_stockout reports a SKU (one that was forecast) if and only
\* if the mean of its last 7 forecast values is <= 0 or below 20% of its
\* historical mean; the date reported is the forecast date of the minimum
\* predicted value, and the predictions are sorted ascending by that date.
C20_StockoutFlaggedByMean ==
    (pc = "built" /\ intent = "predict_stockout" /\ history # <<>>) =>
        /\ \A k \in DOMAIN history :
              (prophet[history[k].sku].kind = "forecast" /\ Len(Cleaned(k)) >= 2) =>
                 /\ history[k].sku \in SkusOf(out.predictions) <=> MeanFlags(k)
                 /\ \A e \in DOMAIN out.predictions :
                       out.predictions[e].sku = history[k].sku =>
                          out.predictions[e].predicted_stockout
                             = ds_at(Cleaned(k), idxmin(ForecastOf(k)))
        /\ \A e \in DOMAIN out.predictions : \A g \in DOMAIN out.predictions :
              e < g => out.predictions[e].predicted_stockout <= out.predictions[g].predicted_stockout

\* the growth rate g is the one of a series of sum hs over hn points whose
\* forecast over the horizon h is f: 0 when the mean is 0, else
\* (forecast mean / historical mean - 1) * 100, and never a quotient by 0
GrowthOf(g, sku_df, f, h) ==
    LET hs == sum_y(sku_df)
        hn == Len(sku_df)
        fs == tail_sum(f, h)
        fc == tail_count(f, h)
    IN /\ g[2] # 0
       /\ hs = 0 => g = <<0, 1>>
       /\ hs # 0 => g = <<100 * (fs * hn - hs * fc), hs * fc>>
\* the group of the frame holding the SKU x
GroupOf(x) == CHOOSE k \in DOMAIN history : history[k].sku = x

\* C21: in predict_top_sales and predict_sku_sales, when the historical
\* mean of a SKU (after cleaning) is exactly 0 the reported growth_rate is
\* exactly 0 and nothing is divided by the historical mean; otherwise
\* growth_rate = (forecast mean / historical mean - 1) * 100.
C21_GrowthRateGuardsZeroMean ==
    pc = "built" =>
        /\ (intent = "predict_top_sales" /\ out.kind = "predictions") =>
              \A e \in DOMAIN out.predictions :
                 LET k == GroupOf(out.predictions[e].sku)
                     h == forecast_periods(params)
                 IN GrowthOf(out.predictions[e].growth_rate, Cleaned(k),
                             forecast_frame(prophet[history[k].sku], Len(Cleaned(k)), h), h)
        /\ (intent = "predict_sku_sales" /\ out.kind = "sku_prediction") =>
              LET h == forecast_periods(params)
                  own == Min({k \in DOMAIN history : upper(history[k].sku) = params.sku})
              IN GrowthOf(out.growth_rate, Selected,
                          forecast_frame(prophet[history[own].sku], Len(Selected), h), h)
\* a SKU whose cleaned series is all zeros has been forecast above zero and
\* is reported with growth rate 0
C21_Witness ==
    /\ pc = "built" /\ intent = "predict_top_sales" /\ out.kind = "predictions"
    /\ \E e \in DOMAIN out.predictions :
          /\ out.predictions[e].current_avg[1] = 0
          /\ out.predictions[e].predicted_sales[1] > 0
          /\ out.predictions[e].growth_rate = <<0, 1>>

-----------------------------------------------------------------------------
(* Properties of run_prophet and the cache *)

\* the calls that returned a forecast before, for the sku and rows of c
EarlierSame(c) == {r \in returned : r.ended = "done" /\ r.sku = c.sku /\ r.df = c.df}
\* every call made so far had the sku and the rows of c
OnlySameSeries(c) == \A r \in returned : r.sku = c.sku /\ r.df = c.df

\* C14: after run_prophet(sku, rows, horizon) has completed once, a second
\* call with the same sku, rows and horizon performs no fit and no predict
\* and returns exactly the forecast the first call stored; a later call with
\* the same sku and rows and another horizon performs no fit (it loads the
\* cached model) but computes a forecast and stores it for that horizon.
C14_SecondCallHitsCache ==
    \A p \in DOMAIN calls :
        LET c == calls[p]
            path == get_forecast_path(c.sku, c.df_hash, c.horizon)
        IN (c.pc = "done" /\ OnlySameSeries(c) /\ EarlierSame(c) # {}) =>
              /\ ~ c.fitted
              /\ c.model = train_prophet_model(clip(c.df))
              /\ \A r \in EarlierSame(c) : r.horizon = c.horizon =>
                    (~ c.predicted /\ c.forecast = r.forecast)
              /\ (\A r \in EarlierSame(c) : r.horizon # c.horizon) =>
                    /\ c.predicted
                    /\ path \in DOMAIN cache.forecasts
                    /\ cache.forecasts[path].state = "complete"
                    /\ cache.forecasts[path].content = c.forecast
                    /\ cache.forecasts[path].writes = 1
\* the same series has been forecast for 30 days, and now for 365 days from
\* the cached model
C14_Witness ==
    \E p \in DOMAIN calls :
        /\ calls[p].pc = "done" /\ calls[p].horizon = 365
        /\ OnlySameSeries(calls[p])
        /\ \E r \in EarlierSame(calls[p]) : r.horizon = 30
        /\ ~ calls[p].fitted /\ calls[p].predicted
        /\ started = MaxCalls

\* the frames holding the rows of df in another order
Reorderings(df) ==
    {[i \in DOMAIN df |-> df[f[i]]] :
        f \in {g \in [DOMAIN df -> DOMAIN df] : \A i, j \in DOMAIN df : g[i] = g[j] => i = j}}

\* C15: hash_dataframe is invariant under row reordering: the hash of any
\* permutation of a series equals the hash of the series, so run_prophet
\* uses the same cache key (the same model file and forecast file) for both.
\* Stated where run_prophet has just taken the digest.
C15_HashIgnoresRowOrder ==
    \A p \in DOMAIN calls :
        LET c == calls[p]
        IN c.pc = "load_model" =>
              \A q \in Reorderings(c.df) :
                 /\ hash_dataframe(q) = hash_dataframe(c.df)
                 /\ hash_dataframe(clip(q)) = c.df_hash
                 /\ get_model_path(c.sku, hash_dataframe(clip(q)))
                       = get_model_path(c.sku, c.df_hash)
                 /\ get_forecast_path(c.sku, hash_dataframe(clip(q)), c.horizon)
                       = get_forecast_path(c.sku, c.df_hash, c.horizon)
\* a call found the model and the forecast stored by a call whose frame held
\* the same rows in another order
C15_Witness ==
    \E p \in DOMAIN calls :
        /\ calls[p].pc = "done" /\ ~ calls[p].fitted /\ ~ calls[p].predicted
        /\ \A r \in returned : /\ r.df # calls[p].df
                               /\ r.df \in Reorderings(calls[p].df)
                               /\ r.forecast = calls[p].forecast
        /\ returned # {}

\* C16: load_cached_forecast(sku, hash, horizon) returns a stored forecast
\* only if save_forecast was called with exactly the same (sku, hash,
\* horizon), and load_cached_model(sku, hash) a model only if save_model was
\* called with exactly the same (sku, hash): no two distinct keys map to the
\* same cache entry.
C16_LoadsOnlyOwnKey ==
    \A p \in DOMAIN calls :
        LET c == calls[p]
        IN /\ c.model_from \in {NoKey, <<c.sku, c.df_hash>>}
           /\ c.forecast_from \in {NoKey, <<c.sku, c.df_hash, c.horizon>>}

\* C17: in every execution, concurrent run_prophet calls for one key
\* included, a model or forecast cache entry is written at most once: once
\* a file exists for a key it is only read.
C17_EntryWrittenOnce ==
    /\ \A path \in DOMAIN cache.models : cache.models[path].writes <= 1
    /\ \A path \in DOMAIN cache.forecasts : cache.forecasts[path].writes <= 1

\* C18: under any interleaving of concurrent run_prophet calls for the same
\* (sku, data hash, horizon), no call loads a partially written cache entry
\* (a load is a miss or a complete model or forecast), and every call ends
\* by returning a forecast.
C18_NoPartialLoad ==
    /\ \A p \in DOMAIN calls : calls[p].pc # "raised"
    /\ \A r \in returned : r.ended = "done" /\ r.forecast # NoForecast

-----------------------------------------------------------------------------
(* Properties of schema resolution *)

\* the tables whose lower-cased name contains some candidate
MatchingTables ==
    {k \in DOMAIN schema :
        \E c \in DOMAIN params.candidates : Contains(lower(schema[k].name), params.candidates[c])}

\* C23: _find_table returns the first table, in the order of the live
\* schema's table list, whose lower-cased name contains any of the candidate
\* names as a substring, and None when no table name contains any candidate.
C23_FirstTableInSchemaOrder ==
    (pc = "found" /\ intent = "_find_table") =>
        out.name = IF MatchingTables = {} THEN NoName ELSE schema[Min(MatchingTables)].name

\* the columns of the table resolved and the candidate list
Cols == schema[1].columns
Cands == params.candidates
\* the score of the pair (candidate c, column k)
PairScore(c, k) == column_score(Cands[c], Cols[k])
Pairs == (DOMAIN Cands) \X (DOMAIN Cols)
\* the highest score of any pair (0 when there is no pair)
TopScore == Max({0} \cup {PairScore(q[1], q[2]) : q \in Pairs})
\* the pairs reaching the highest score
TopPairs == {q \in Pairs : PairScore(q[1], q[2]) = TopScore}
\* the columns reaching the highest score with some candidate
TopColumns == {q[2] : q \in TopPairs}
\* the earliest candidate with which some column reaches the highest score
TopCandidate == Min({q[1] : q \in TopPairs})
ColumnFound == pc = "found" /\ intent = "_find_column"

\* C24 as stated: _find_column returns a column that reaches the highest
\* score (+100 exact, +50 suffix, +30 prefix, +10 substring, +20 type
\* affinity); when several columns reach the same highest score, the one
\* that comes first in the schema column order is returned.
C24_TieGoesToFirstColumn ==
    (ColumnFound /\ TopScore > 0) => out.name = Cols[Min(TopColumns)].name

\* C24, amended: _find_column returns a column that reaches the highest
\* score; when several columns reach it, the one returned reaches it with
\* the earliest candidate of the list that any of them reaches it with, and
\* among the columns reaching it with that candidate it is the first in the
\* schema column order.
C24_TieGoesToFirstColumnOfFirstCandidate ==
    (ColumnFound /\ TopScore > 0) =>
        /\ \E k \in TopColumns : out.name = Cols[k].name
        /\ out.name = Cols[Min({k \in DOMAIN Cols : <<TopCandidate, k>> \in TopPairs})].name
\* two columns reach the highest score and the second of the schema order
\* was returned, because it reaches it with an earlier candidate
C24_Witness ==
    /\ ColumnFound /\ TopScore > 0
    /\ Cardinality(TopColumns) = 2
    /\ out.name = Cols[Max(TopColumns)].name

\* C25: _find_column returns None when no (candidate, column) pair scores
\* above zero; among pairs that reach the same highest score, the one met
\* first in candidate-list order determines the returned column.
C25_NoneOrFirstCandidate ==
    ColumnFound =>
        /\ TopScore = 0 <=> out.name = NoName
        /\ TopScore > 0 =>
              \E k \in DOMAIN Cols : /\ <<TopCandidate, k>> \in TopPairs
                                     /\ out.name = Cols[k].name
\* two pairs with different candidates reach the highest score and the
\* column of the earlier candidate was returned
C25_Witness ==
    /\ ColumnFound /\ TopScore > 0
    /\ \E q \in TopPairs : q[1] > TopCandidate /\ Cols[q[2]].name # out.name
    /\ \E k \in DOMAIN Cols : <<TopCandidate, k>> \in TopPairs /\ out.name = Cols[k].name

\* column k matches candidate c by name: exact, suffix _cand, prefix cand_
\* or substring
NameMatches(c, k) ==
    LET lcand == lower(Cands[c])
        lname == lower(Cols[k].name)
    IN \/ lname = lcand
       \/ endswith(lname, <<"_">> \o lcand)
       \/ startswith(lname, lcand \o <<"_">>)
       \/ Contains(lname, lcand)

\* C26: _find_column returns a column only if its name matches some
\* candidate by the exact, suffix, prefix or substring rule; a column whose
\* name matches no candidate is never returned on the strength of its
\* declared type alone, so a table with no name-matching column yields None.
C26_NeverByTypeAlone ==
    ColumnFound =>
        /\ out.name # NoName =>
              \E q \in Pairs : Cols[q[2]].name = out.name /\ NameMatches(q[1], q[2])
        /\ (\A q \in Pairs : ~ NameMatches(q[1], q[2])) => out.name = NoName

-----------------------------------------------------------------------------
(* Properties of the response generator *)

\* C22: ResponseGenerator.execute never raises for any (intent, params,
\* result): an intent without a registered handler yields the generic "no
\* specific format" string, which holds the raw result, and an exception
\* raised inside a handler yields the fixed apology string.
C22_ExecuteNeverRaises ==
    pc = "done" =>
        /\ outcome = "returned"
        /\ reply # NoReply
        /\ reply.template # "raised"
        /\ intent \notin ResponseHandlers =>
              (reply.template = "no specific format" /\ reply.args = <<intent, out>>)
        /\ (intent \in ResponseHandlers /\ handler_raises(intent, params, out)) =>
              reply = FormatApology
        /\ (intent \in ResponseHandlers /\ ~ handler_raises(intent, params, out)) =>
              reply.template \notin {"cannot formulate", "no specific format"}
\* the forecast handler was given None and execute returned the apology
C22_Witness ==
    /\ pc = "done" /\ outcome = "returned"
    /\ intent = "predict_sku_sales" /\ out.kind = "none"
    /\ reply = FormatApology

-----------------------------------------------------------------------------
(* Properties of ChatWebSocketManager._build_response *)

\* C1: _build_response returns a string for every message and never
\* raises, whichever step fails: classification, the query, the response
\* generation or the recording of the exchange.
C1_AlwaysReturnsReply ==
    pc = "done" => (outcome = "returned" /\ reply # NoReply)

\* C9: the horizon handed to the forecasting model is 30 days for a request
\* whose period is next month (none given, or type next_month) and 365 days
\* for one whose period is a year; predict_top_sales on a text without month
\* or year is forecast over 30 days.
C9_HorizonFollowsPeriod ==
    (intent \in {"predict_stockout", "predict_top_sales", "predict_sku_sales"} /\ horizon > 0) =>
        /\ (~ has(params, "period") \/ params.period.type = "next_month") => horizon = 30
        /\ (has(params, "period") /\ params.period.type = "year") => horizon = 365

\* C27: for predict_top_sales and predict_sku_sales, and for every params
\* mapping the classifier can emit, the period named in the rendered reply
\* (next month or next year) agrees with the horizon used for the forecast
\* (30 days or 365 days respectively).
C27_ReplyPeriodIsForecastHorizon ==
    (/\ pc \in {"record", "done"}
     /\ intent \in {"predict_top_sales", "predict_sku_sales"}
     /\ reply.template \in {"top sales forecast", "sku forecast"}) =>
        /\ reply.args[1] = "proximo mes" <=> horizon = 30
        /\ reply.args[1] = "proximo ano" <=> horizon = 365

-----------------------------------------------------------------------------
(* Properties of sales_between_dates *)

\* the rows dated from the first day of the start month through the last
\* day of the end month (of the SKU asked, when one is)
InMonths ==
    {row \in sales :
        /\ has(params, "sku") => row.sku = params.sku
        /\ date_le(Date(params.start.year, params.start.month, 1), row.date)
        /\ date_le(row.date, Date(params.end.year, params.end.month, 31))}

\* C28: for sales_between_dates with a month+year start and a month+year
\* end, the returned total is the sum over every sale dated from the first
\* day of the start month through the last day of the end month: sales
\* dated on any day of the end month are included.
C28_EndMonthIsIncluded ==
    (pc = "built" /\ intent = "sales_between_dates" /\ outcome = "ok") =>
        out.total = sum_qty(InMonths)

-----------------------------------------------------------------------------
(* Properties of the recording of the exchange *)

\* C29: every string _build_response returns to the user, the apologies
\* returned when classification or the query fails included, has its
\* exchange recorded in chat history as two entries for that user, the
\* user's message first and the reply second; no reply is returned without
\* both entries having been stored.
C29_ReturnedReplyIsRecorded ==
    (pc = "done" /\ outcome = "returned") =>
        /\ Len(chat_history) >= 2
        /\ chat_history[Len(chat_history) - 1] = [user_message |-> TRUE, message |-> text]
        /\ chat_history[Len(chat_history)] = [user_message |-> FALSE, message |-> reply]

-----------------------------------------------------------------------------
(* Properties of the hand-over from the classifier to the builder *)

\* the request names at least two month+year periods
TwoMonths == has(params, "months") /\ Len(params.months) >= 2
\* the request names at least two years
TwoYears == has(params, "years") /\ Len(params.years) >= 2

\* C30: for every params mapping RuleIntentClassifier.execute can emit for
\* sku_sales_compare (a sku together with months and/or years lists of any
\* length), SQLQueryBuilder.execute accepts it: when the text named two
\* month+year periods it compares those two month periods, when it named two
\* or more years it compares the first two years, and it never fails on the
\* shape or key names of the params.
C30_BuilderAcceptsClassifierCompareParams ==
    (/\ pc = "built" /\ intent = "sku_sales_compare"
     /\ (has(params, "months") \/ has(params, "years"))) =>
        /\ outcome \notin {"ValueError: unpack", "ValueError: periods"}
        /\ (outcome = "ok" /\ TwoMonths) =>
              /\ out.kind = "compare_periods"
              /\ \A k \in 1..2 : /\ executed[k].bind.m = params.months[k].month
                                  /\ executed[k].bind.y = params.months[k].year
        /\ (outcome = "ok" /\ ~ TwoMonths /\ TwoYears) =>
              /\ out.kind = "compare_years"
              /\ \A k \in 1..2 : executed[k].bind.y = params.years[k]

====
